---- MODULE Spec2Model ----
(***************************************************************************)
(* Envelope protocol, View rendering and recalculation, tool handler       *)
(* layer and host bridge of the mcp-apps repository.                       *)
(*                                                                         *)
(* Four specifications share the variables:                                *)
(*   SpecView   one View (regex, loan, appdiscovery or the shared bridge)  *)
(*              receiving tool-input / tool-result / tool-cancelled and    *)
(*              user edits;                                                *)
(*   SpecScan   one View receiving one recorded tool-result, for the       *)
(*              scan of its content blocks;                                *)
(*   SpecTools  the server's tool handlers reached over the MCP            *)
(*              registration and over REST POST /api/<app>/tool;           *)
(*   SpecHost   the simulator host and the screenshot harness driving the  *)
(*              bridge handshake.                                          *)
(*                                                                         *)
(* Text is a sequence of one-character strings.  Money is an integer       *)
(* number of cents; rates are tenths of a percent.                         *)
(***************************************************************************)
EXTENDS Integers, Sequences, FiniteSets, TLC

VARIABLES
    ui,         \* one View iframe: the module-level state of its view.ts and its DOM
    request,    \* tool handler layer: the call being served
    response,   \* tool handler layer: what the caller received
    host        \* the simulator host / the screenshot harness and its bridges

vars == <<ui, request, response, host>>

\* The values of request, response and host while the layer they belong to is
\* idle: no call being served, nothing received by a caller (an MCP result has
\* content and structuredContent, a REST reply a status and a body or an error),
\* no tool-result recorded as posted.
NoRequest == [via |-> "none", app |-> "", tool |-> "", args |-> <<>>]
NoResponse ==
    [via |-> "none", status |-> 0, content |-> <<>>, structuredContent |-> <<>>,
     body |-> <<>>, error |-> ""]
NoMessage == [sent |-> FALSE, content |-> <<>>]

\* ------------------------------------------------------------------ bounds
\* Longest content list of a tool-result.
MaxBlocks == 2
\* Most View iframes the simulator is asked to open.
MaxViews == 2
\* Most clicks on the simulator's theme toggle.
MaxToggles == 2

\* ------------------------------------------------------------------ text

RECURSIVE MapSeq(_, _)
\* s.map(F) for an operator of one argument.
MapSeq(F(_), s) == IF s = <<>> THEN <<>> ELSE <<F(Head(s))>> \o MapSeq(F, Tail(s))

RECURSIVE Flatten(_)
Flatten(ss) == IF ss = <<>> THEN <<>> ELSE Head(ss) \o Flatten(Tail(ss))

\* str.replace(/&/g,"&amp;").replace(/</g,"&lt;").replace(/>/g,"&gt;").replace(/"/g,"&quot;")
EscCharQuot(c) ==
    CASE c = "&" -> "&amp;"
      [] c = "<" -> "&lt;"
      [] c = ">" -> "&gt;"
      [] c = "\"" -> "&quot;"
      [] OTHER -> c

\* div.textContent = s; return div.innerHTML  (the loan View): quotes are kept.
EscCharDom(c) ==
    CASE c = "&" -> "&amp;"
      [] c = "<" -> "&lt;"
      [] c = ">" -> "&gt;"
      [] OTHER -> c

\* esc() of the View v.
esc(v, str) ==
    IF str = <<>> THEN <<>>
    ELSE IF v = "loan" THEN MapSeq(EscCharDom, str) ELSE MapSeq(EscCharQuot, str)

\* ------------------------------------------------------------ regex engine
\* The patterns of the model and what the JavaScript engine makes of them:
\*   "a"    the literal a            "a*"   zero or more a (matches the empty string)
\*   "(a)"  a captured in group 1    "("    a syntax error (unterminated group)
Patterns == {"a", "a*", "(a)", "("}
ValidPatterns == {"a", "a*", "(a)"}

\* Flags are text: <<>>, <<"g">>, <<"y">>, <<"z">> (no such flag).
FlagChars == {"d", "g", "i", "m", "s", "u", "v", "y"}
Includes1(str, c) == \E i \in 1..Len(str) : str[i] = c
FlagsValid(flags) ==
    /\ \A i \in 1..Len(flags) : flags[i] \in FlagChars
    /\ \A i, j \in 1..Len(flags) : i # j => flags[i] # flags[j]

NoError == "noerror"
\* new RegExp(pattern, flags): the compiled object, or the message of the SyntaxError.
NewRegExp(pattern, flags) ==
    IF ~FlagsValid(flags) THEN [ok |-> FALSE, message |-> "Invalid flags"]
    ELSE IF pattern \notin ValidPatterns
         THEN [ok |-> FALSE, message |-> "Invalid regular expression"]
         ELSE [ok |-> TRUE, source |-> pattern,
               global |-> Includes1(flags, "g"), sticky |-> Includes1(flags, "y")]

\* The number of consecutive "a" in s from 0-based index i.
RunOfA(s, i) ==
    LET others == {k \in (i + 1)..Len(s) : s[k] # "a"}
    IN  IF others = {} THEN Len(s) - i
        ELSE (CHOOSE k \in others : \A m \in others : k <= m) - 1 - i

\* Length of the match of the pattern at 0-based index i of s, -1 when there is none.
MatchLenAt(source, s, i) ==
    IF source = "a*" THEN RunOfA(s, i)
    ELSE IF i < Len(s) /\ s[i + 1] = "a" THEN 1 ELSE -1

SubStr(s, from, len) == [k \in 1..len |-> s[from + k]]

\* RegExp.prototype.exec: found (m !== null), the match, and the lastIndex it leaves.
NoMatch == [index |-> 0, match |-> <<>>, groups |-> <<>>]
RegExpExec(re, s, lastIndex) ==
    LET usesLast == re.global \/ re.sticky
        start == IF usesLast THEN lastIndex ELSE 0
        cands == IF start > Len(s) THEN {}
                 ELSE IF re.sticky
                      THEN {i \in {start} : MatchLenAt(re.source, s, i) >= 0}
                      ELSE {i \in start..Len(s) : MatchLenAt(re.source, s, i) >= 0}
    IN  IF cands = {}
        THEN [found |-> FALSE, m |-> NoMatch,
              lastIndex |-> IF usesLast THEN 0 ELSE lastIndex]
        ELSE LET i == CHOOSE x \in cands : \A y \in cands : x <= y
                 n == MatchLenAt(re.source, s, i)
                 text == SubStr(s, i, n)
             IN  [found |-> TRUE,
                  m |-> [index |-> i, match |-> text,
                         groups |-> IF re.source = "(a)" THEN <<text>> ELSE <<>>],
                  lastIndex |-> IF usesLast THEN i + n ELSE lastIndex]

\* while ((m = re.exec(testString)) !== null && safety < 100)
MatchCap == 100

\* A pass that leaves lastIndex where exec put it after an empty match.
ScanStepStay(re, s, st, r) ==
    IF ~r.found \/ ~(st.safety < MatchCap) THEN [st EXCEPT !.done = TRUE]
    ELSE [lastIndex |-> r.lastIndex, matches |-> Append(st.matches, r.m),
          safety |-> st.safety + 1, done |-> FALSE]

\* One evaluation of the loop condition and, when it holds, one pass of the body:
\* safety++, the match pushed, lastIndex moved on after an empty match.  A loop
\* that has left stays as it is.
ScanStep(re, s, st, r) ==
    IF ~r.found \/ ~(st.safety < MatchCap) THEN [st EXCEPT !.done = TRUE]
    ELSE [lastIndex |-> IF Len(r.m.match) = 0 THEN r.lastIndex + 1 ELSE r.lastIndex,
          matches |-> Append(st.matches, r.m), safety |-> st.safety + 1, done |-> FALSE]

RECURSIVE ScanPasses(_, _, _, _)
\* n turns of the loop from st, the first half of them before the rest.
ScanPasses(re, s, st, n) ==
    IF st.done \/ n = 0 THEN st
    ELSE IF n = 1 THEN ScanStep(re, s, st, RegExpExec(re, s, st.lastIndex))
    ELSE ScanPasses(re, s, ScanPasses(re, s, st, n \div 2), n - (n \div 2))

\* The loop leaves at the latest when its condition is evaluated with safety = 100.
ScanLoop(re, s, lastIndex, matches, safety) ==
    ScanPasses(re, s, [lastIndex |-> lastIndex, matches |-> matches, safety |-> safety,
                       done |-> FALSE], MatchCap + 1 - safety).matches

\* effectiveFlags = flags.includes("g") ? flags : flags + "g"
EffectiveFlags(flags) == IF Includes1(flags, "g") THEN flags ELSE flags \o <<"g">>

\* testRegex (server engine).
testRegex(pattern, flags, testString) ==
    LET re == NewRegExp(pattern, EffectiveFlags(flags))
    IN  IF re.ok
        THEN LET matches == ScanLoop(re, testString, 0, <<>>, 0)
             IN  [pattern |-> pattern, flags |-> flags, testString |-> testString,
                  matches |-> matches, matchCount |-> Len(matches), error |-> NoError]
        ELSE [pattern |-> pattern, flags |-> flags, testString |-> testString,
              matches |-> <<>>, matchCount |-> 0, error |-> re.message]

\* A copy that compiles the flags as given, without adding "g".
runRegexAsGiven(pattern, flags, testString) ==
    LET re == NewRegExp(pattern, flags)
    IN  IF re.ok
        THEN LET matches == ScanLoop(re, testString, 0, <<>>, 0)
             IN  [pattern |-> pattern, flags |-> flags, testString |-> testString,
                  matches |-> matches, matchCount |-> Len(matches), error |-> NoError]
        ELSE [pattern |-> pattern, flags |-> flags, testString |-> testString,
              matches |-> <<>>, matchCount |-> 0, error |-> re.message]

\* runRegexClientSide (the View's copy of testRegex).
runRegexClientSide(pattern, flags, testString) ==
    LET re == NewRegExp(pattern, EffectiveFlags(flags))
    IN  IF re.ok
        THEN LET matches == ScanLoop(re, testString, 0, <<>>, 0)
             IN  [pattern |-> pattern, flags |-> flags, testString |-> testString,
                  matches |-> matches, matchCount |-> Len(matches), error |-> NoError]
        ELSE [pattern |-> pattern, flags |-> flags, testString |-> testString,
              matches |-> <<>>, matchCount |-> 0, error |-> re.message]

RECURSIVE TestCases(_, _, _, _)
\* cases.map(c => re.test(c.input) ...): one RegExp object, so lastIndex carries over.
TestCases(re, cases, lastIndex, out) ==
    IF cases = <<>> THEN out
    ELSE LET c == Head(cases)
             r == RegExpExec(re, c.input, lastIndex)
             didMatch == r.found
         IN  TestCases(re, Tail(cases), r.lastIndex,
                       Append(out, [input |-> c.input, shouldMatch |-> c.shouldMatch,
                                    didMatch |-> didMatch,
                                    passed |-> (didMatch = c.shouldMatch)]))

\* A count of the cases that matched instead of the cases that passed.
PassCountMatched(results) == Cardinality({i \in 1..Len(results) : results[i].didMatch})
PassCount(results) == Cardinality({i \in 1..Len(results) : results[i].passed})

\* validateRegex (server engine).
validateRegex(pattern, flags, cases) ==
    LET re == NewRegExp(pattern, flags)
    IN  IF re.ok
        THEN LET results == TestCases(re, cases, 0, <<>>)
             IN  [pattern |-> pattern, flags |-> flags, results |-> results,
                  passCount |-> PassCount(results), totalCount |-> Len(results),
                  error |-> NoError]
        ELSE [pattern |-> pattern, flags |-> flags, results |-> <<>>,
              passCount |-> 0, totalCount |-> Len(cases), error |-> re.message]

\* ---------------------------------------------------------- regex explainer
\* A pattern is the sequence of its characters; pattern[i] of the code is p[i + 1].
\* A description is the sequence of its pieces, the em dash written "-" and the
\* text of escapeMap[seq] written <<"escapeMap", next>>.
Ch(p, i) == p[i + 1]
\* pattern.substring(j).startsWith(lit)
StartsWith(p, j, lit) ==
    /\ j + Len(lit) <= Len(p)
    /\ \A k \in 1..Len(lit) : Ch(p, j + k - 1) = lit[k]
\* pattern.substring(from, to)
Substring(p, from, to) == [k \in 1..(to - from) |-> Ch(p, from + k - 1)]

Token(token, category, description) ==
    [token |-> token, category |-> category, description |-> description]

\* The names of escapeMap, after the backslash.
EscapeNames == {"d", "D", "w", "W", "s", "S", "b", "B", "n", "t", "r", "f", "v", "0"}
Digits == {"0", "1", "2", "3", "4", "5", "6", "7", "8", "9"}

\* if (ch === "\\"): the two characters of an escape, or the trailing backslash.
EscapeToken(p, i) ==
    IF i + 1 < Len(p)
    THEN LET next == Ch(p, i + 1)
         IN  IF next \in EscapeNames
             THEN Token(<<"\\", next>>, IF next \in {"b", "B"} THEN "anchor" ELSE "escape",
                        <<"escapeMap", next>>)
             ELSE IF next \in Digits \ {"0"}
             THEN Token(<<"\\", next>>, "escape", <<"Back-reference to group ", next>>)
             ELSE Token(<<"\\", next>>, "escape", <<"Escaped '", next, "' (literal)">>)
    ELSE Token(<<"\\">>, "literal", <<"Backslash (incomplete escape)">>)
\* An index that moves on by one after every backslash.
EscapeNextOne(p, i) == i + 1
\* i += 2 after an escape, i++ after the trailing backslash
EscapeNext(p, i) == IF i + 1 < Len(p) THEN i + 2 ELSE i + 1

RECURSIVE ClassBody(_, _, _)
\* while (j < pattern.length && pattern[j] !== "]"): cls and j as the loop leaves them.
ClassBody(p, j, cls) ==
    IF j < Len(p) /\ Ch(p, j) # "]"
    THEN IF Ch(p, j) = "\\" /\ j + 1 < Len(p)
         THEN ClassBody(p, j + 2, cls \o <<"\\", Ch(p, j + 1)>>)
         ELSE ClassBody(p, j + 1, Append(cls, Ch(p, j)))
    ELSE [j |-> j, cls |-> cls]
\* if (j < pattern.length && pattern[j] === "^") { negated = true; cls += "^"; j++ }
ClassNegated(p, i) == i + 1 < Len(p) /\ Ch(p, i + 1) = "^"
ClassAfterCaret(p, i) ==
    IF ClassNegated(p, i) THEN [j |-> i + 2, cls |-> <<"[", "^">>]
    ELSE [j |-> i + 1, cls |-> <<"[">>]
\* Handle ] as first char in class
ClassAfterFirst(p, st) ==
    IF st.j < Len(p) /\ Ch(p, st.j) = "]" THEN [j |-> st.j + 1, cls |-> Append(st.cls, "]")]
    ELSE st
\* if (j < pattern.length) { cls += "]"; j++ }
ClassClosed(p, st) ==
    IF st.j < Len(p) THEN [j |-> st.j + 1, cls |-> Append(st.cls, "]")] ELSE st
\* if (ch === "["): cls and j when the token is pushed
ClassScan(p, i) ==
    ClassClosed(p, ClassBody(p, ClassAfterFirst(p, ClassAfterCaret(p, i)).j,
                             ClassAfterFirst(p, ClassAfterCaret(p, i)).cls))
ClassToken(p, i) ==
    Token(ClassScan(p, i).cls, "character-class",
          <<IF ClassNegated(p, i) THEN "Character class (negated): match any character NOT in "
            ELSE "Character class: match any character in ">> \o ClassScan(p, i).cls)

\* pattern.substring(j).match(/^\?<([^>]+)>/): the index of the closing ">" of the
\* name, or -1 when the expression does not match.
NameClose(p, j) ==
    LET closes == {k \in (j + 3)..(Len(p) - 1) :
                      /\ Ch(p, k) = ">"
                      /\ \A m \in (j + 2)..(k - 1) : Ch(p, m) # ">"}
    IN  IF StartsWith(p, j, <<"?", "<">>) /\ closes # {}
        THEN CHOOSE k \in closes : TRUE
        ELSE -1
\* if (ch === "("): groupToken, j and desc when the token is pushed
GroupScan(p, i) ==
    LET j == i + 1
    IN  IF StartsWith(p, j, <<"?", ":">>)
        THEN [token |-> <<"(", "?", ":">>, j |-> j + 2, desc |-> <<"Non-capturing group">>]
        ELSE IF StartsWith(p, j, <<"?", "=">>)
        THEN [token |-> <<"(", "?", "=">>, j |-> j + 2, desc |-> <<"Positive lookahead">>]
        ELSE IF StartsWith(p, j, <<"?", "!">>)
        THEN [token |-> <<"(", "?", "!">>, j |-> j + 2, desc |-> <<"Negative lookahead">>]
        ELSE IF StartsWith(p, j, <<"?", "<", "=">>)
        THEN [token |-> <<"(", "?", "<", "=">>, j |-> j + 3, desc |-> <<"Positive lookbehind">>]
        ELSE IF StartsWith(p, j, <<"?", "<", "!">>)
        THEN [token |-> <<"(", "?", "<", "!">>, j |-> j + 3, desc |-> <<"Negative lookbehind">>]
        ELSE IF StartsWith(p, j, <<"?", "<">>) /\ NameClose(p, j) >= 0
        THEN [token |-> <<"(", "?", "<">> \o Substring(p, j + 2, NameClose(p, j)) \o <<">">>,
              j |-> j + (NameClose(p, j) - j + 1),
              desc |-> <<"Named capturing group '">> \o Substring(p, j + 2, NameClose(p, j))
                       \o <<"'">>]
        ELSE [token |-> <<"(">>, j |-> j, desc |-> <<"Capturing group">>]
GroupToken(p, i) == Token(GroupScan(p, i).token, "group", GroupScan(p, i).desc \o <<" - start">>)

\* if (ch === "*" || ch === "+" || ch === "?"): the token, with the lazy "?" if it follows
QuantifierLazy(p, i) == i + 1 < Len(p) /\ Ch(p, i + 1) = "?"
\* qDesc[ch]
QuantifierDesc(ch) ==
    CASE ch = "*" -> "Zero or more"
      [] ch = "+" -> "One or more"
      [] OTHER -> "Zero or one (optional)"
QuantifierToken(p, i) ==
    Token(IF QuantifierLazy(p, i) THEN <<Ch(p, i), "?">> ELSE <<Ch(p, i)>>, "quantifier",
          <<QuantifierDesc(Ch(p, i)),
            IF QuantifierLazy(p, i) THEN " (lazy/non-greedy)" ELSE " (greedy)">>)

\* The number of digits of p from index q on.
DigitRun(p, q) ==
    LET others == {k \in q..(Len(p) - 1) : Ch(p, k) \notin Digits}
    IN  IF others = {} THEN Len(p) - q
        ELSE (CHOOSE k \in others : \A m \in others : k <= m) - q
\* pattern.substring(i).match(/^\{(\d+)(,(\d*))?\}/): the length of braceMatch[0],
\* or 0 when the expression does not match.
BraceMatch(p, i) ==
    LET q == i + 1 + DigitRun(p, i + 1)
        r == q + 1 + DigitRun(p, q + 1)
    IN  IF DigitRun(p, i + 1) = 0 \/ ~(q < Len(p)) THEN 0
        ELSE IF Ch(p, q) = "}" THEN q + 1 - i
        ELSE IF Ch(p, q) = "," /\ r < Len(p) /\ Ch(p, r) = "}" THEN r + 1 - i
        ELSE 0
\* if (i + token.length < pattern.length && pattern[i + token.length] === "?")
BraceLazy(p, i) ==
    i + BraceMatch(p, i) < Len(p) /\ Ch(p, i + BraceMatch(p, i)) = "?"
\* min = braceMatch[1], hasComma, max = braceMatch[3]
BraceDesc(p, i) ==
    LET q == i + 1 + DigitRun(p, i + 1)
        min == Substring(p, i + 1, q)
        max == Substring(p, q + 1, q + 1 + DigitRun(p, q + 1))
    IN  IF Ch(p, q) = "}" THEN <<"Exactly ">> \o min \o <<" times">>
        ELSE IF max = <<>> THEN min \o <<" or more times">>
        ELSE <<"Between ">> \o min \o <<" and ">> \o max \o <<" times">>
BraceToken(p, i) ==
    Token(Substring(p, i, i + BraceMatch(p, i)) \o IF BraceLazy(p, i) THEN <<"?">> ELSE <<>>,
          "quantifier",
          BraceDesc(p, i) \o <<IF BraceLazy(p, i) THEN " (lazy/non-greedy)" ELSE " (greedy)">>)

\* One turn of the while loop of tokenize at index i: the token pushed.
TokenAt(p, i) ==
    LET ch == Ch(p, i)
    IN  CASE ch = "^" -> Token(<<"^">>, "anchor", <<"Start of string (or line in multiline mode)">>)
          [] ch = "$" -> Token(<<"$">>, "anchor", <<"End of string (or line in multiline mode)">>)
          [] ch = "\\" -> EscapeToken(p, i)
          [] ch = "[" -> ClassToken(p, i)
          [] ch = "(" -> GroupToken(p, i)
          [] ch = ")" -> Token(<<")">>, "group", <<"Group - end">>)
          [] ch = "|" -> Token(<<"|">>, "alternation",
                               <<"Alternation - match either the left or right side">>)
          [] ch \in {"*", "+", "?"} -> QuantifierToken(p, i)
          [] ch = "{" /\ BraceMatch(p, i) > 0 -> BraceToken(p, i)
          [] ch = "." -> Token(<<".">>, "character-class",
                               <<"Any character except newline (or any character in dotall mode)">>)
          [] OTHER -> Token(<<ch>>, "literal", <<"Literal '", ch, "'">>)
\* ... and the index the turn leaves in i.
NextAt(p, i) ==
    LET ch == Ch(p, i)
    IN  CASE ch = "\\" -> EscapeNext(p, i)
          [] ch = "[" -> ClassScan(p, i).j
          [] ch = "(" -> GroupScan(p, i).j
          [] ch \in {"*", "+", "?"} -> i + Len(QuantifierToken(p, i).token)
          [] ch = "{" /\ BraceMatch(p, i) > 0 -> i + Len(BraceToken(p, i).token)
          [] OTHER -> i + 1

RECURSIVE TokenizeFrom(_, _, _)
\* while (i < pattern.length) { ... }
TokenizeFrom(p, i, tokens) ==
    IF i < Len(p) THEN TokenizeFrom(p, NextAt(p, i), Append(tokens, TokenAt(p, i)))
    ELSE tokens
\* tokenize
tokenize(pattern) == TokenizeFrom(pattern, 0, <<>>)


\* ------------------------------------------------------- IEEE 754 doubles
\* JavaScript numbers are IEEE 754 binary64.  A natural number of any size is a
\* sequence of limbs, least significant first, in base 2^15 (a product of two
\* limbs fits TLC's integers).
Base == 2^15

\* The operations named here are entered through Js, which takes the name and the
\* arguments: X(a, b) is XImpl(a, b).
RECURSIVE Js(_, _)
DFromInt(n) == Js("DFromInt", <<n>>)
DMul(x, y) == Js("DMul", <<x, y>>)
DDiv(x, y) == Js("DDiv", <<x, y>>)
DAdd(x, y) == Js("DAdd", <<x, y>>)
DSub(x, y) == Js("DSub", <<x, y>>)
DLess(x, y) == Js("DLess", <<x, y>>)
MathRound(x) == Js("MathRound", <<x>>)
MathFloor(x) == Js("MathFloor", <<x>>)
IsInteger(x) == Js("IsInteger", <<x>>)
round2(n) == Js("round2", <<n>>)
MathPow(x, y) == Js("MathPow", <<x, y>>)
computeLoan(input) == Js("computeLoan", <<input>>)
recalcFromSliders(base, rate, termYears, downPct) == Js("recalcFromSliders", <<base, rate, termYears, downPct>>)
fmt(n) == Js("fmt", <<n>>)
DownPct(data) == Js("DownPct", <<data>>)
handleAmortizationSchedule(input) == Js("handleAmortizationSchedule", <<input>>)
handleCompareLoans(input) == Js("handleCompareLoans", <<input>>)

RECURSIVE BDivFrom(_, _, _, _, _)
\* The limb at position i, 0 outside the sequence.
Limb(a, i) == IF i >= 1 /\ i <= Len(a) THEN a[i] ELSE 0
Reverse(q) == [i \in 1..Len(q) |-> q[Len(q) + 1 - i]]
TopOf(S) == CHOOSE i \in S : \A j \in S : j <= i
\* Without leading zero limbs.
BNorm(a) ==
    IF \A i \in 1..Len(a) : a[i] = 0 THEN <<>>
    ELSE SubSeq(a, 1, TopOf({i \in 1..Len(a) : a[i] # 0}))

\* Numbers below 2^31 have at most three limbs.
BFromInt(n) == BNorm(<<n % Base, (n \div Base) % Base, n \div (Base * Base)>>)
BToInt(a) == Limb(a, 1) + Base * Limb(a, 2) + Base * Base * Limb(a, 3)

\* -1, 0 or 1 as a < b, a = b, a > b: the longer is the greater, and of two of
\* one length the greater at the highest limb where they differ.
BCmpAt(a, b, i) == IF a[i] < b[i] THEN 0 - 1 ELSE 1
BCmp(a, b) ==
    IF Len(a) < Len(b) THEN 0 - 1
    ELSE IF Len(a) > Len(b) THEN 1
    ELSE IF a = b THEN 0
    ELSE BCmpAt(a, b, TopOf({i \in 1..Len(a) : a[i] # b[i]}))

\* a + b.  A carry enters limb i when some lower limb overflows and every limb
\* between passes a carry on.
BCarry(a, b, i) ==
    \E j \in 1..(i - 1) :
        /\ Limb(a, j) + Limb(b, j) >= Base
        /\ \A k \in (j + 1)..(i - 1) : Limb(a, k) + Limb(b, k) = Base - 1
BAddLimb(a, b, i) ==
    (Limb(a, i) + Limb(b, i) + (IF BCarry(a, b, i) THEN 1 ELSE 0)) % Base
BAddLen(a, b) == (IF Len(a) > Len(b) THEN Len(a) ELSE Len(b)) + 1
BAdd(a, b) == BNorm([i \in 1..BAddLen(a, b) |-> BAddLimb(a, b, i)])

\* a - b, for a >= b.  Limb i lends when some lower limb is short and every limb
\* between is level.
BBorrow(a, b, i) ==
    \E j \in 1..(i - 1) :
        /\ Limb(a, j) < Limb(b, j)
        /\ \A k \in (j + 1)..(i - 1) : Limb(a, k) = Limb(b, k)
BSubLimb(a, b, i) ==
    (a[i] - Limb(b, i) - (IF BBorrow(a, b, i) THEN 1 ELSE 0) + Base) % Base
BSub(a, b) == BNorm([i \in 1..Len(a) |-> BSubLimb(a, b, i)])

\* a * k, for 0 <= k < Base: the low halves of the limb products plus their high
\* halves one limb up.
BMulSmall(a, k) ==
    BAdd([i \in 1..Len(a) |-> (a[i] * k) % Base],
         [i \in 1..(Len(a) + 1) |-> (Limb(a, i - 1) * k) \div Base])

\* a * b, for a of at most four limbs (a mantissa).  Column k gathers the low
\* halves of the products a[i] * b[k + 1 - i] and the high halves of the column
\* below; a column is less than 2^18.
BLowCol(a, b, k) ==
    ((Limb(a, 1) * Limb(b, k)) % Base) + ((Limb(a, 2) * Limb(b, k - 1)) % Base)
    + ((Limb(a, 3) * Limb(b, k - 2)) % Base) + ((Limb(a, 4) * Limb(b, k - 3)) % Base)
BHighCol(a, b, k) ==
    ((Limb(a, 1) * Limb(b, k)) \div Base) + ((Limb(a, 2) * Limb(b, k - 1)) \div Base)
    + ((Limb(a, 3) * Limb(b, k - 2)) \div Base) + ((Limb(a, 4) * Limb(b, k - 3)) \div Base)
BCol(a, b, k) == BLowCol(a, b, k) + BHighCol(a, b, k - 1)
BMul(a, b) ==
    BAdd([k \in 1..(Len(a) + Len(b)) |-> BCol(a, b, k) % Base],
         [k \in 1..(Len(a) + Len(b) + 1) |-> BCol(a, b, k - 1) \div Base])

\* The number of bits of a.
BitLenSmall(n) == CHOOSE k \in 0..15 : n < 2^k /\ (k = 0 \/ n >= 2^(k - 1))
BBitLen(a) == IF a = <<>> THEN 0 ELSE 15 * (Len(a) - 1) + BitLenSmall(a[Len(a)])

\* a * 2^n and floor(a / 2^n), limb by limb.
BShlLimb(a, w, s, k) ==
    ((Limb(a, k - w) % 2^(15 - s)) * 2^s) + (Limb(a, k - w - 1) \div 2^(15 - s))
BShl(a, n) == BNorm([k \in 1..(Len(a) + n \div 15 + 1) |-> BShlLimb(a, n \div 15, n % 15, k)])
BShrLimb(a, w, s, k) ==
    (Limb(a, k + w) \div 2^s) + ((Limb(a, k + w + 1) % 2^s) * 2^(15 - s))
BShr(a, n) == BNorm([k \in 1..(Len(a) - n \div 15) |-> BShrLimb(a, n \div 15, n % 15, k)])
\* a mod 2^n = 0
BLowZero(a, n) ==
    /\ \A i \in 1..(n \div 15) : Limb(a, i) = 0
    /\ Limb(a, n \div 15 + 1) % (2^(n % 15)) = 0
BOdd(a) == a # <<>> /\ a[1] % 2 = 1
\* Long division of a by b, most significant limb first, for b whose top limb is
\* at least Base / 2.  The quotient limb is at most two below the quotient of
\* the two top limbs of the running remainder by the top limb of b.
BGuess(cur, b) ==
    IF (Limb(cur, Len(b) + 1) * Base + Limb(cur, Len(b))) \div b[Len(b)] >= Base
    THEN Base - 1
    ELSE (Limb(cur, Len(b) + 1) * Base + Limb(cur, Len(b))) \div b[Len(b)]
BDigitFrom(cur, b, g) ==
    IF BCmp(BMulSmall(b, g), cur) <= 0 THEN g
    ELSE IF BCmp(BMulSmall(b, g - 1), cur) <= 0 THEN g - 1
    ELSE g - 2
BDigit(cur, b) == IF BCmp(cur, b) < 0 THEN 0 ELSE BDigitFrom(cur, b, BGuess(cur, b))
\* One quotient limb for each limb of a from position i down, most significant
\* first in q; rem, less than b, is what the limbs above i left.  The guard on
\* rem has it computed before the next limb is taken.
BDivRest(b, cur, d) == IF d = 0 THEN cur ELSE BSub(cur, BMulSmall(b, d))
BDivNext(a, b, i, q, cur, d) == BDivFrom(a, b, i - 1, Append(q, d), BDivRest(b, cur, d))
BDivFrom(a, b, i, q, rem) ==
    IF i <= 0 \/ Len(rem) > Len(b) THEN [q |-> q, r |-> rem]
    ELSE BDivNext(a, b, i, q, BNorm(<<a[i]>> \o rem), BDigit(BNorm(<<a[i]>> \o rem), b))
\* Quotient and remainder of a by b > 0: both are scaled so that the top limb of
\* the divisor is at least Base / 2, which leaves the quotient as it is.  The
\* top Len(b) - 1 limbs of a are less than b and start the remainder.
BDivResult(res, k) == [q |-> BNorm(Reverse(res.q)), r |-> BShr(res.r, k)]
BDivScaled(a, b, k) ==
    IF Len(a) < Len(b) THEN [q |-> <<>>, r |-> BShr(a, k)]
    ELSE BDivResult(BDivFrom(a, b, Len(a) - Len(b) + 1, <<>>,
                             SubSeq(a, Len(a) - Len(b) + 2, Len(a))), k)
BDivBy(a, b, k) == BDivScaled(BShl(a, k), BShl(b, k), k)
BDivMod(a, b) == BDivBy(a, b, 15 * Len(b) - BBitLen(b))

\* A double: sign s (1 or -1), mantissa m with 2^52 <= m < 2^53, exponent e; its
\* value is s * m * 2^e.  Zero has the empty mantissa.  Infinities, NaN and
\* subnormals are outside the amounts the loan tools handle.
DZero == [s |-> 1, m |-> <<>>, e |-> 0]

\* Round to nearest, ties to even: the double nearest to s * (m + f) * 2^e, where
\* 0 <= f < 1 and sticky says f > 0 (then m has at least 55 bits).
DRoundUp(m, sh, sticky) ==
    /\ BOdd(BShr(m, sh - 1))
    /\ (sticky \/ ~BLowZero(m, sh - 1) \/ BOdd(BShr(m, sh)))
DPack(s, m, e) == IF BBitLen(m) = 54 THEN [s |-> s, m |-> BShr(m, 1), e |-> e + 1]
                  ELSE [s |-> s, m |-> m, e |-> e]
DRoundTo(s, m, e, sticky, sh) ==
    DPack(s, IF DRoundUp(m, sh, sticky) THEN BAdd(BShr(m, sh), <<1>>) ELSE BShr(m, sh), e + sh)
DFl(s, m, e, sticky) ==
    IF m = <<>> THEN DZero
    ELSE IF BBitLen(m) <= 53
         THEN [s |-> s, m |-> BShl(m, 53 - BBitLen(m)), e |-> e - (53 - BBitLen(m))]
         ELSE DRoundTo(s, m, e, sticky, BBitLen(m) - 53)

DFromIntImpl(n) == IF n < 0 THEN DFl(0 - 1, BFromInt(0 - n), 0, FALSE) ELSE DFl(1, BFromInt(n), 0, FALSE)
DNeg(x) == IF x.m = <<>> THEN x ELSE [x EXCEPT !.s = 0 - x.s]

\* x * y
DMulImpl(x, y) ==
    IF x.m = <<>> \/ y.m = <<>> THEN DZero
    ELSE DFl(x.s * y.s, BMul(x.m, y.m), x.e + y.e, FALSE)

\* x / y for y # 0: 56 more quotient bits than the mantissas give, the remainder
\* as the sticky bit.
DQuotient(s, qr, e) == DFl(s, qr.q, e, qr.r # <<>>)
DDivImpl(x, y) ==
    IF x.m = <<>> THEN DZero
    ELSE DQuotient(x.s * y.s, BDivMod(BShl(x.m, 56), y.m), x.e - 56 - y.e)

\* x + y, computed exactly and rounded once.
DAddAligned(xs, xm, ys, ym, e) ==
    IF xs = ys THEN DFl(xs, BAdd(xm, ym), e, FALSE)
    ELSE IF BCmp(xm, ym) >= 0 THEN DFl(xs, BSub(xm, ym), e, FALSE)
    ELSE DFl(ys, BSub(ym, xm), e, FALSE)
DAddAt(x, y, e) == DAddAligned(x.s, BShl(x.m, x.e - e), y.s, BShl(y.m, y.e - e), e)
DAddImpl(x, y) ==
    IF x.m = <<>> THEN y
    ELSE IF y.m = <<>> THEN x
    ELSE DAddAt(x, y, IF x.e < y.e THEN x.e ELSE y.e)
DSubImpl(x, y) == DAdd(x, DNeg(y))
DNegative(d) == d.m # <<>> /\ d.s < 0
DLessImpl(x, y) == DNegative(DSub(x, y))

\* Math.round(x) as an integer: the nearest integer, halves towards +infinity.
DRoundPos(m, sh) == BToInt(BShr(m, sh)) + (IF BOdd(BShr(m, sh - 1)) THEN 1 ELSE 0)
DRoundNeg(m, sh) ==
    BToInt(BShr(m, sh)) + (IF BOdd(BShr(m, sh - 1)) /\ ~BLowZero(m, sh - 1) THEN 1 ELSE 0)
MathRoundImpl(x) ==
    IF x.m = <<>> THEN 0
    ELSE IF x.e >= 0 THEN x.s * BToInt(BShl(x.m, x.e))
    ELSE IF x.s > 0 THEN DRoundPos(x.m, 0 - x.e)
    ELSE 0 - DRoundNeg(x.m, 0 - x.e)
\* Math.floor(x) for x >= 0.
MathFloorImpl(x) ==
    IF x.m = <<>> THEN 0
    ELSE IF x.e >= 0 THEN BToInt(BShl(x.m, x.e)) ELSE BToInt(BShr(x.m, 0 - x.e))
IsIntegerImpl(x) == x.m = <<>> \/ x.e >= 0 \/ BLowZero(x.m, 0 - x.e)

D100 == DFromInt(100)
\* round2: Math.round(n * 100) / 100
round2Impl(n) == DDiv(DFromInt(MathRound(DMul(n, D100))), D100)

DSquare(x) == DMul(x, x)
\* acc * sq^n by squaring, the low bits of n first.  The guards on sq and acc
\* have them computed before the next bit is taken.
RECURSIVE PowFrom(_, _, _)
PowFrom(n, sq, acc) ==
    IF n = 0 \/ sq.m = <<>> \/ acc.m = <<>> THEN acc
    ELSE IF n % 2 = 1 THEN PowFrom(n \div 2, DSquare(sq), DMul(acc, sq))
    ELSE PowFrom(n \div 2, DSquare(sq), acc)
PowInt(x, n) == IF x.m = <<>> /\ n > 0 THEN DZero ELSE PowFrom(n, x, DFromInt(1))
\* Math.pow(x, y), an implementation-approximated value: for a whole y >= 0 the
\* product by repeated squaring, each step rounded.  The loan engine raises to a
\* fractional power only for a fractional number of months at a non-zero rate,
\* which no input of this model has.
MathPowImpl(x, y) == PowInt(x, MathFloor(y))

\* ------------------------------------------------------------ loan engine
\* Inputs are JSON numbers written with decimals: money in cents (two decimals),
\* rates and years in tenths (one decimal).  JSON.parse gives the double nearest
\* to the decimal, which is the correctly rounded quotient of two integers.
JsonNumber(n, scale) == DDiv(DFromInt(n), DFromInt(scale))
Dollars(cents) == JsonNumber(cents, 100)
Tenths(t) == JsonNumber(t, 10)
D1 == DFromInt(1)
D12 == DFromInt(12)

\* Math.round(a / b) = floor(a / b + 0.5) on integers, for b > 0.
RoundDiv(a, b) == (2 * a + b) \div (2 * b)

\* calculateMonthlyPayment (server).
\*   principal * (monthlyRate * factor) / (factor - 1)
PaymentWithFactor(principal, monthlyRate, factor) ==
    DDiv(DMul(principal, DMul(monthlyRate, factor)), DSub(factor, D1))
calculateMonthlyPayment(principal, monthlyRate, termMonths) ==
    IF monthlyRate.m = <<>> THEN DDiv(principal, termMonths)
    ELSE PaymentWithFactor(principal, monthlyRate,
                           MathPow(DAdd(D1, monthlyRate), termMonths))

\* calcMonthly (the loan View's copy).
\*   principal * (monthlyRate * f) / (f - 1)
MonthlyWithF(principal, monthlyRate, f) ==
    DDiv(DMul(principal, DMul(monthlyRate, f)), DSub(f, D1))
calcMonthly(principal, monthlyRate, termMonths) ==
    IF monthlyRate.m = <<>> THEN DDiv(principal, termMonths)
    ELSE MonthlyWithF(principal, monthlyRate, MathPow(DAdd(D1, monthlyRate), termMonths))

\* An optional input field: <<>> when absent, <<x>> when given.
OrZero(opt) == IF opt = <<>> THEN 0 ELSE opt[1]

\* The totals and the returned object, shared by the server and the View, whose
\* expressions for them are the same:
\*   monthlyTotal = monthlyPI + monthlyTax + monthlyInsurance
\*   totalInterest = monthlyPI * termMonths - loanAmount
\*   totalCost = monthlyTotal * termMonths + downPayment
\* each rounded to cents only in the returned object.
LoanFields(echo, shownLoanAmount, termMonths, monthlyPI, monthlyTax, monthlyInsurance, monthlyTotal, totalInterest, totalCost) ==
    [principal |-> echo.principal, loanAmount |-> shownLoanAmount,
     downPayment |-> echo.downPayment, annualRate |-> echo.annualRate,
     termYears |-> echo.termYears, termMonths |-> termMonths,
     monthlyPrincipalInterest |-> round2(monthlyPI),
     monthlyTax |-> round2(monthlyTax),
     monthlyInsurance |-> round2(monthlyInsurance),
     monthlyTotal |-> round2(monthlyTotal),
     totalInterest |-> round2(totalInterest),
     totalCost |-> round2(totalCost),
     propertyTaxRate |-> echo.propertyTaxRate, annualInsurance |-> echo.annualInsurance]
LoanSums(echo, loanAmount, shownLoanAmount, downPayment, termMonths, monthlyPI, monthlyTax, monthlyInsurance, monthlyTotal) ==
    LoanFields(echo, shownLoanAmount, termMonths, monthlyPI, monthlyTax, monthlyInsurance,
               monthlyTotal, DSub(DMul(monthlyPI, termMonths), loanAmount),
               DAdd(DMul(monthlyTotal, termMonths), downPayment))
LoanTotals(echo, loanAmount, shownLoanAmount, downPayment, termMonths, monthlyPI, monthlyTax, monthlyInsurance) ==
    LoanSums(echo, loanAmount, shownLoanAmount, downPayment, termMonths, monthlyPI,
             monthlyTax, monthlyInsurance,
             DAdd(DAdd(monthlyPI, monthlyTax), monthlyInsurance))

\* computeLoan (server).  The input fields are echoed as they came; loanAmount is
\* returned unrounded.
\*   monthlyTax = input.property_tax_rate
\*                  ? (input.principal * (input.property_tax_rate / 100)) / 12 : 0
ServerMonthlyTax(input) ==
    IF OrZero(input.property_tax_rate) # 0
    THEN DDiv(DMul(Dollars(input.principal),
                   DDiv(Tenths(OrZero(input.property_tax_rate)), D100)), D12)
    ELSE DZero
ServerMonthlyInsurance(input) ==
    IF OrZero(input.annual_insurance) # 0
    THEN DDiv(Dollars(OrZero(input.annual_insurance)), D12)
    ELSE DZero
ComputeWith(input, loanAmount, monthlyRate, termMonths) ==
    LoanTotals([principal |-> input.principal, downPayment |-> OrZero(input.down_payment),
                annualRate |-> input.annual_rate, termYears |-> input.term_years,
                propertyTaxRate |-> OrZero(input.property_tax_rate),
                annualInsurance |-> OrZero(input.annual_insurance)],
               loanAmount, loanAmount, Dollars(OrZero(input.down_payment)), termMonths,
               calculateMonthlyPayment(loanAmount, monthlyRate, termMonths),
               ServerMonthlyTax(input), ServerMonthlyInsurance(input))
computeLoanImpl(input) ==
    ComputeWith(input,
                DSub(Dollars(input.principal), Dollars(OrZero(input.down_payment))),
                DDiv(DDiv(Tenths(input.annual_rate), D100), D12),
                DMul(Tenths(input.term_years), D12))

\* recalcFromSliders (the loan View).  rate and termYears are slider values in
\* tenths, downPct a whole percent; downPayment is a whole number of dollars.
\*   monthlyTax = base.propertyTaxRate
\*                  ? (base.principal * base.propertyTaxRate / 100) / 12 : 0
ViewMonthlyTax(base) ==
    IF base.propertyTaxRate # 0
    THEN DDiv(DDiv(DMul(Dollars(base.principal), Tenths(base.propertyTaxRate)), D100), D12)
    ELSE DZero
ViewMonthlyInsurance(base) ==
    IF base.annualInsurance # 0 THEN DDiv(Dollars(base.annualInsurance), D12) ELSE DZero
RecalcWith(base, rate, termYears, downPayment, loanAmount, monthlyRate, termMonths) ==
    LoanTotals([principal |-> base.principal, downPayment |-> 100 * downPayment,
                annualRate |-> rate, termYears |-> termYears,
                propertyTaxRate |-> base.propertyTaxRate,
                annualInsurance |-> base.annualInsurance],
               loanAmount, round2(loanAmount), DFromInt(downPayment), termMonths,
               calcMonthly(loanAmount, monthlyRate, termMonths),
               ViewMonthlyTax(base), ViewMonthlyInsurance(base))
RecalcDown(base, rate, termYears, downPayment) ==
    RecalcWith(base, rate, termYears, downPayment,
               DSub(Dollars(base.principal), DFromInt(downPayment)),
               DDiv(DDiv(Tenths(rate), D100), D12),
               DMul(Tenths(termYears), D12))
recalcFromSlidersImpl(base, rate, termYears, downPct) ==
    RecalcDown(base, rate, termYears,
               MathRound(DDiv(DMul(Dollars(base.principal), DFromInt(downPct)), D100)))

\* fmt(): toLocaleString with maximumFractionDigits 0, whole dollars.
fmtImpl(n) == MathRound(n)

\* --------------------------------------------------------- envelope protocol
\* The marker key of each app's envelopes.
RegexMarker == "__regexplayground__"
LoanMarker == "__loancalculator__"
AppMarker == "__appdiscovery__"

Views == {"regex", "loan", "appdiscovery", "bridge"}

\* The key a View looks for: parsed.__regexplayground__, parsed.__loancalculator__,
\* parsed.__appdiscovery__, parsed[config.envelopeKey] (the bridge is configured
\* with the key its doc comment gives, "__appdiscovery__").
MarkerOf(v) ==
    CASE v = "regex" -> RegexMarker
      [] v = "loan" -> LoanMarker
      [] OTHER -> AppMarker

\* The text of a content block, by what JSON.parse makes of it:
\*   plain     not JSON (JSON.parse throws)
\*   jsonnull  the JSON text null (parses, falsy)
\*   json      a JSON object; marker is the marker key it carries with value true
\*             ("" when it carries none)
PlainText(chars) == [kind |-> "plain", chars |-> chars]
JsonNull == [kind |-> "jsonnull"]
JsonEnvelope(marker, viewType, data) ==
    [kind |-> "json", marker |-> marker, viewType |-> viewType, data |-> data]

\* JSON.parse(text): threw, or the parsed value.
JsonParse(text) == [threw |-> text.kind = "plain", value |-> text]

\* parsed && parsed[key]
CarriesMarker(parsed, key) == parsed.kind = "json" /\ parsed.marker = key

\* The characters of a block's text, as the fallback renders them.
TextChars(text) ==
    CASE text.kind = "plain" -> text.chars
      [] text.kind = "jsonnull" -> <<"n", "u", "l", "l">>
      [] OTHER -> <<"{", "\"", text.marker, "\"", ":", "t", "&", "}">>

TextBlock(text) == [type |-> "text", hasText |-> TRUE, text |-> text]
ImageBlock == [type |-> "image", hasText |-> FALSE, text |-> JsonNull]

\* block.type === "text" && "text" in block
IsTextBlock(block) == block.type = "text" /\ block.hasText

\* The try body of the scan loop: does this block dispatch an envelope?
BlockMatches(v, block) ==
    /\ IsTextBlock(block)
    /\ ~JsonParse(block.text).threw
    /\ CarriesMarker(JsonParse(block.text).value, MarkerOf(v))

RECURSIVE ScanKeepLast(_, _, _)
\* A scan without the return: the last matching block wins.
ScanKeepLast(v, content, found) ==
    IF content = <<>> THEN found
    ELSE ScanKeepLast(v, Tail(content),
                      IF BlockMatches(v, Head(content))
                      THEN <<JsonParse(Head(content).text).value>> ELSE found)
ScanForEnvelopeLast(v, content) == ScanKeepLast(v, content, <<>>)

RECURSIVE ScanForEnvelope(_, _)
\* for (const block of content) { ... handleEnvelope(parsed); return; }
\* The envelopes handed to handleEnvelope, in order: the loop returns at the first.
ScanForEnvelope(v, content) ==
    IF content = <<>> THEN <<>>
    ELSE IF BlockMatches(v, Head(content))
         THEN <<JsonParse(Head(content).text).value>>
         ELSE ScanForEnvelope(v, Tail(content))

RECURSIVE LastTextBlock(_)
\* A fallback loop that keeps going: the last text block.
LastTextBlock(content) ==
    IF content = <<>> THEN <<>>
    ELSE IF LastTextBlock(Tail(content)) # <<>> THEN LastTextBlock(Tail(content))
         ELSE IF IsTextBlock(Head(content)) THEN <<Head(content)>> ELSE <<>>

RECURSIVE FirstTextBlock(_)
\* The fallback loop: the first text block, <<>> when there is none.
FirstTextBlock(content) ==
    IF content = <<>> THEN <<>>
    ELSE IF IsTextBlock(Head(content)) THEN <<Head(content)>>
         ELSE FirstTextBlock(Tail(content))

\* ------------------------------------------------------------ View: state
\* The handlers a view.ts assigns on its App before it calls connect().
ViewHandlers(v) ==
    {"hostcontextchanged", "toolresult", "toolcancelled"}
    \cup (IF v \in {"appdiscovery", "bridge"} THEN {"toolinput"} ELSE {})

\* The module-level state of a view.ts right after its declarations ran, before
\* connect() settles.  An optional value (T | null) is <<>> or <<x>>.
InitView(v) ==
    [app |-> v,
     conn |-> "connecting",
     theme |-> "unset",
     contentEl |-> [kind |-> "initial"],
     modeBadge |-> "",
     detailActive |-> FALSE,
     detailContent |-> <<>>,
     currentViewType |-> IF v = "appdiscovery" THEN "search" ELSE "",
     currentCalcData |-> <<>>,
     sliderBase |-> <<>>,
     currentAmortData |-> <<>>,
     amortViewMode |-> "chart",
     currentCompareData |-> <<>>,
     currentTestData |-> <<>>,
     currentGenerateData |-> <<>>,
     currentCheatsheetData |-> <<>>,
     activeCheatsheetCategory |-> "All",
     allApps |-> <<>>,
     sourceApp |-> <<>>,
     currentCategory |-> "",
     currentSort |-> "rating",
     searchInput |-> <<>>,
     toolbar |-> "initial",
     appCount |-> <<>>,
     handlers |-> ViewHandlers(v),
     lastEvent |-> [op |-> "init"]]

\* The placeholders the Views write.
StatusEl(msg) == [kind |-> "status", msg |-> msg]
CancelledEl == StatusEl("Tool call was cancelled")
NoContentEl == StatusEl("Received result but no content")
ReadyEl == StatusEl("Ready!")
WaitingEl == StatusEl("Waiting for data...")
\* <div style="white-space:pre-wrap;...">${esc(block.text)}</div>
RawTextEl(v, block) == [kind |-> "rawtext", html |-> esc(v, TextChars(block.text))]

\* ------------------------------------------------------------ View: regex
\* The text of #match-count: a count, "Error" (CountError), or no such element.
CountError == 0 - 1
CountAbsent == 0 - 2

\* renderTestMode: the inputs, then either the error div or the highlighted
\* output with its match count and (when there are matches) the match table.
renderTestMode(data) ==
    [kind |-> "test",
     patternInput |-> data.pattern,
     flagsInput |-> data.flags,
     testTextarea |-> data.testString,
     errorMsg |-> data.error,
     hasHighlight |-> data.error = NoError,
     matchCount |-> IF data.error = NoError THEN data.matchCount ELSE CountAbsent,
     highlight |-> IF data.error = NoError
                   THEN [ok |-> TRUE, str |-> data.testString, spans |-> data.matches]
                   ELSE [ok |-> TRUE, str |-> <<>>, spans |-> <<>>],
     highlightError |-> NoError,
     table |-> IF data.error = NoError THEN data.matches ELSE <<>>]

\* updateTestResults: patches the elements renderTestMode left in the DOM.
updateTestResults(el, data) ==
    IF data.error # NoError
    THEN [el EXCEPT !.highlightError = IF el.hasHighlight THEN data.error ELSE @,
                    !.highlight = IF el.hasHighlight
                                  THEN [ok |-> FALSE, str |-> <<>>, spans |-> <<>>] ELSE @,
                    !.matchCount = IF el.hasHighlight THEN CountError ELSE @,
                    !.table = <<>>]
    ELSE [el EXCEPT !.highlightError = IF el.hasHighlight THEN NoError ELSE @,
                    !.highlight = IF el.hasHighlight
                                  THEN [ok |-> TRUE, str |-> data.testString,
                                        spans |-> data.matches] ELSE @,
                    !.matchCount = IF el.hasHighlight THEN data.matchCount ELSE @,
                    !.table = data.matches]

renderExplainMode(data) == [kind |-> "explain", data |-> data]

renderGenerateMode(data) ==
    [kind |-> "generate",
     patternInput |-> data.pattern,
     flagsInput |-> data.flags,
     errorMsg |-> data.error,
     badge |-> <<data.passCount, data.totalCount>>,
     results |-> data.results]

renderCheatsheetMode(data, active) ==
    [kind |-> "cheatsheet", categories |-> data.categories, active |-> active]

\* x || "All"
OrAll(x) == IF x = "" THEN "All" ELSE x

\* handleEnvelope of the regex View: a switch over test / explain / generate /
\* cheatsheet with no default case.
RegexHandleEnvelope(s, env) ==
    LET s1 == [s EXCEPT !.currentViewType = env.viewType]
    IN  CASE env.viewType = "test" ->
               [s1 EXCEPT !.currentTestData = <<env.data>>, !.modeBadge = "Test",
                          !.contentEl = renderTestMode(env.data)]
          [] env.viewType = "explain" ->
               [s1 EXCEPT !.modeBadge = "Explain",
                          !.contentEl = renderExplainMode(env.data)]
          [] env.viewType = "generate" ->
               [s1 EXCEPT !.currentGenerateData = <<env.data>>, !.modeBadge = "Generate",
                          !.contentEl = renderGenerateMode(env.data)]
          [] env.viewType = "cheatsheet" ->
               [s1 EXCEPT !.currentCheatsheetData = <<env.data>>,
                          !.activeCheatsheetCategory = OrAll(env.data.activeCategory),
                          !.modeBadge = "Cheatsheet",
                          !.contentEl = renderCheatsheetMode(env.data,
                                                             OrAll(env.data.activeCategory))]
          [] OTHER -> s1

\* rerun (test mode): an input event on the pattern, flags or test-string field.
RegexRerun(s, pattern, flags, testString) ==
    LET result == runRegexClientSide(pattern, flags, testString)
        el == [s.contentEl EXCEPT !.patternInput = pattern, !.flagsInput = flags,
                                  !.testTextarea = testString]
    IN  [s EXCEPT !.currentTestData = <<result>>,
                  !.contentEl = updateTestResults(el, result)]

\* The cases the generate mode reruns: currentGenerateData?.results.map(...) || [].
RerunCases(s) ==
    IF s.currentGenerateData = <<>> THEN <<>>
    ELSE [i \in 1..Len(s.currentGenerateData[1].results) |->
            [input |-> s.currentGenerateData[1].results[i].input,
             shouldMatch |-> s.currentGenerateData[1].results[i].shouldMatch]]

\* rerun (generate mode): an input event on the pattern or flags field.  The
\* flags are compiled as typed; on a SyntaxError only the error element changes.
RegexGenerateRerun(s, pattern, flags) ==
    LET re == NewRegExp(pattern, flags)
        el == [s.contentEl EXCEPT !.patternInput = pattern, !.flagsInput = flags]
    IN  IF re.ok
        THEN LET results == TestCases(re, RerunCases(s), 0, <<>>)
             IN  [s EXCEPT !.contentEl = [el EXCEPT !.results = results,
                                                    !.badge = <<PassCount(results), Len(results)>>,
                                                    !.errorMsg = NoError]]
        ELSE [s EXCEPT !.contentEl = [el EXCEPT !.errorMsg = re.message]]

\* ------------------------------------------------------------- View: loan
Clamp(x, lo, hi) == IF x < lo THEN lo ELSE IF x > hi THEN hi ELSE x

\* The value an <input type="range" min max step value> takes: clamped to the
\* range and snapped to the nearest step counted from min.
SliderValue(value, min, max, step) ==
    LET c == Clamp(value, min, max)
        snapped == min + step * RoundDiv(c - min, step)
    IN  IF snapped > max THEN snapped - step ELSE snapped

\* downPct = principal > 0 ? (downPayment / principal) * 100 : 0, then Math.round.
DownPctImpl(data) ==
    IF data.principal > 0
    THEN MathRound(DMul(DDiv(Dollars(data.downPayment), Dollars(data.principal)), D100))
    ELSE 0

\* What the calculate mode shows of a LoanResult (hero, breakdown, stats).
CalcDisplay(data) ==
    [heroAmount |-> fmt(data.monthlyTotal),
     heroSub |-> <<fmt(data.loanAmount), data.annualRate, data.termYears>>,
     breakdown |-> <<data.monthlyPrincipalInterest, data.monthlyTax,
                     data.monthlyInsurance, data.monthlyTotal>>,
     statInterest |-> fmt(data.totalInterest),
     statCost |-> fmt(data.totalCost),
     statLoan |-> fmt(data.loanAmount)]

\* renderCalculateMode: the display, the three sliders and their value labels.
\* Rates are tenths of a percent: min 0, max 15 %, step 0.1 %; terms are tenths
\* of a year: min 5, max 40, step 5 years.
renderCalculateMode(data) ==
    [kind |-> "calculate",
     shown |-> CalcDisplay(data),
     sliderRate |-> SliderValue(data.annualRate, 0, 150, 1),
     sliderTerm |-> SliderValue(data.termYears, 50, 400, 50),
     sliderDown |-> SliderValue(DownPct(data), 0, 50, 1),
     valRate |-> data.annualRate,
     valTerm |-> data.termYears,
     valDown |-> DownPct(data)]

renderAmortizationMode(data, mode) == [kind |-> "amortization", data |-> data, mode |-> mode]
renderCompareMode(data) == [kind |-> "compare", data |-> data]
\* renderError: <div class="error-msg">${esc(message)}</div>
renderError(message) == [kind |-> "error", html |-> esc("loan", <<message>>)]

\* A handleEnvelope that re-renders but keeps the cached calculation.
LoanHandleEnvelopeStale(s, env) ==
    IF env.viewType = "calculate"
    THEN [s EXCEPT !.currentViewType = env.viewType,
                   !.sliderBase = <<env.data>>,
                   !.contentEl = renderCalculateMode(env.data)]
    ELSE [s EXCEPT !.currentViewType = env.viewType]

\* handleEnvelope of the loan View.
LoanHandleEnvelope(s, env) ==
    LET s1 == [s EXCEPT !.currentViewType = env.viewType]
    IN  CASE env.viewType = "calculate" ->
               [s1 EXCEPT !.currentCalcData = <<env.data>>,
                          !.sliderBase = <<env.data>>,
                          !.contentEl = renderCalculateMode(env.data)]
          [] env.viewType = "amortization" ->
               [s1 EXCEPT !.currentAmortData = <<env.data>>, !.amortViewMode = "chart",
                          !.contentEl = renderAmortizationMode(env.data, "chart")]
          [] env.viewType = "compare" ->
               [s1 EXCEPT !.currentCompareData = <<env.data>>,
                          !.contentEl = renderCompareMode(env.data)]
          [] env.viewType = "error" ->
               [s1 EXCEPT !.contentEl = renderError(env.data.error)]
          [] OTHER -> s1

\* update() of attachSliderEvents: an input event on one of the three sliders.
\* baseData is the LoanResult renderCalculateMode was called with.
LoanSliderUpdate(s, rate, term, down) ==
    LET updated == recalcFromSliders(s.sliderBase[1], rate, term, down)
    IN  [s EXCEPT !.currentCalcData = <<updated>>,
                  !.contentEl = [@ EXCEPT !.shown = CalcDisplay(updated),
                                          !.sliderRate = rate, !.sliderTerm = term,
                                          !.sliderDown = down,
                                          !.valRate = rate, !.valTerm = term,
                                          !.valDown = down]]

\* ----------------------------------------------------- View: appdiscovery
\* String.prototype.toLowerCase over the alphabet of the catalog.
LowerChar(c) ==
    IF c = "P" THEN "p" ELSE IF c = "E" THEN "e" ELSE IF c = "N" THEN "n" ELSE c
toLowerCase(str) == MapSeq(LowerChar, str)

RECURSIVE TrimStart(_)
TrimStart(str) ==
    IF str # <<>> /\ Head(str) = " " THEN TrimStart(Tail(str)) ELSE str
RECURSIVE TrimEnd(_)
TrimEnd(str) ==
    IF str # <<>> /\ str[Len(str)] = " " THEN TrimEnd(SubSeq(str, 1, Len(str) - 1)) ELSE str
\* String.prototype.trim
trim(str) == TrimEnd(TrimStart(str))

\* String.prototype.includes
includes(str, q) ==
    \E i \in 1..(Len(str) - Len(q) + 1) : SubSeq(str, i, i + Len(q) - 1) = q

\* Collation rank of a letter of the catalog's alphabet; localeCompare orders by
\* letter before case, and the catalog's names differ in their letters.
CharOrd(c) ==
    CASE LowerChar(c) = " " -> 0 [] LowerChar(c) = "e" -> 1 [] LowerChar(c) = "n" -> 2
      [] LowerChar(c) = "p" -> 3 [] OTHER -> 4
RECURSIVE localeCompare(_, _)
\* a.localeCompare(b) < 0, = 0, > 0 as -1, 0, 1
localeCompare(a, b) ==
    IF a = <<>> /\ b = <<>> THEN 0
    ELSE IF a = <<>> THEN 0 - 1
    ELSE IF b = <<>> THEN 1
    ELSE IF CharOrd(Head(a)) < CharOrd(Head(b)) THEN 0 - 1
    ELSE IF CharOrd(Head(a)) > CharOrd(Head(b)) THEN 1
    ELSE localeCompare(Tail(a), Tail(b))

\* AppData records of the catalog (ratings in tenths, prices in cents).
AppPen == [id |-> "pen", name |-> <<"P", "e", "n">>, shortDescription |-> <<"p", "e", "n">>,
           features |-> << <<"n", "e", "p">> >>, category |-> "art",
           rating |-> 45, price |-> 0]
AppPep == [id |-> "pep", name |-> <<"P", "e", "p">>, shortDescription |-> <<"p", " ", "e">>,
           features |-> <<>>, category |-> "art", rating |-> 48, price |-> 299]
AppNee == [id |-> "nee", name |-> <<"N", "e", "e">>, shortDescription |-> <<"e", "n">>,
           features |-> << <<"E", "n">> >>, category |-> "music",
           rating |-> 45, price |-> 99]

RECURSIVE Filter(_, _)
\* Array.prototype.filter
Filter(Keep(_), xs) ==
    IF xs = <<>> THEN <<>>
    ELSE (IF Keep(Head(xs)) THEN <<Head(xs)>> ELSE <<>>) \o Filter(Keep, Tail(xs))

RECURSIVE InsertSorted(_, _, _)
InsertSorted(Cmp(_, _), x, sorted) ==
    IF sorted = <<>> THEN <<x>>
    ELSE IF Cmp(x, Head(sorted)) < 0 THEN <<x>> \o sorted
         ELSE <<Head(sorted)>> \o InsertSorted(Cmp, x, Tail(sorted))
RECURSIVE SortBy(_, _)
\* Array.prototype.sort: stable, so equal elements keep their order.
SortBy(Cmp(_, _), xs) ==
    IF xs = <<>> THEN <<>>
    ELSE InsertSorted(Cmp, xs[Len(xs)], SortBy(Cmp, SubSeq(xs, 1, Len(xs) - 1)))

ByRating(a, b) == b.rating - a.rating
ByPrice(a, b) == a.price - b.price
ByName(a, b) == localeCompare(a.name, b.name)

\* getFilteredSorted: category filter, text filter on the search box, sort.
getFilteredSorted(s) ==
    LET InCategory(a) == a.category = s.currentCategory
        byCat == IF s.currentCategory # "" THEN Filter(InCategory, s.allApps)
                 ELSE s.allApps
        query == toLowerCase(trim(s.searchInput))
        Hit(a) == \/ includes(toLowerCase(a.name), query)
                  \/ includes(toLowerCase(a.shortDescription), query)
                  \/ \E i \in 1..Len(a.features) :
                         includes(toLowerCase(a.features[i]), query)
        byText == IF query # <<>> THEN Filter(Hit, byCat) ELSE byCat
    IN  CASE s.currentSort = "rating" -> SortBy(ByRating, byText)
          [] s.currentSort = "price" -> SortBy(ByPrice, byText)
          [] s.currentSort = "name" -> SortBy(ByName, byText)
          [] OTHER -> byText

\* renderApps: the cards, or the 'No apps found' placeholder.
renderApps(apps) ==
    IF apps = <<>> THEN StatusEl("No apps found") ELSE [kind |-> "cards", cards |-> apps]

\* renderSearchView (with renderToolbar(true))
renderSearchView(s) ==
    [s EXCEPT !.toolbar = "flex",
              !.contentEl = renderApps(getFilteredSorted(s)),
              !.appCount = <<"apps", Len(s.allApps)>>]

\* showList and showDetailView switch between the list view and the detail panel.
showList(s) == [s EXCEPT !.detailActive = FALSE]
showDetailView(s, a) ==
    [s EXCEPT !.detailActive = TRUE, !.detailContent = <<a>>]

renderCompareView(s, apps) ==
    [s EXCEPT !.toolbar = "none",
              !.appCount = <<"comparing", Len(apps)>>,
              !.contentEl = IF Len(apps) < 2 THEN StatusEl("Not enough apps to compare")
                            ELSE [kind |-> "compare", apps |-> apps]]

renderAlternativesView(s) ==
    IF s.sourceApp = <<>>
    THEN [s EXCEPT !.toolbar = "none", !.contentEl = StatusEl("Source app not found")]
    ELSE [s EXCEPT !.toolbar = "none",
                   !.appCount = <<"alternatives", Len(s.allApps)>>,
                   !.contentEl = [kind |-> "alternatives", source |-> s.sourceApp[1],
                                  cards |-> s.allApps]]

\* handleEnvelope of the appdiscovery View.
AppHandleEnvelope(s, env) ==
    LET s1 == showList([s EXCEPT !.currentViewType = env.viewType])
    IN  CASE env.viewType = "search" ->
               renderSearchView([s1 EXCEPT !.allApps = env.data.results,
                                           !.sourceApp = <<>>,
                                           !.currentCategory = "",
                                           !.currentSort = "rating"])
          [] env.viewType = "detail" ->
               IF env.data.app # <<>> THEN showDetailView(s1, env.data.app[1])
               ELSE [s1 EXCEPT !.contentEl = StatusEl("App not found")]
          [] env.viewType = "compare" -> renderCompareView(s1, env.data.apps)
          [] env.viewType = "alternatives" ->
               renderAlternativesView([s1 EXCEPT !.sourceApp = env.data.sourceApp,
                                                 !.allApps = env.data.alternatives,
                                                 !.currentCategory = "",
                                                 !.currentSort = "rating"])
          [] OTHER -> s1

\* What the user sees: the detail panel hides the list view (and #results in it).
Visible(s) ==
    IF s.detailActive THEN [panel |-> "detail", el |-> [kind |-> "detail", app |-> s.detailContent]]
    ELSE [panel |-> "list", el |-> s.contentEl]

\* ------------------------------------------------- View: message handlers
\* config.onEnvelope of the shared bridge: the caller's callback; the bridge
\* itself keeps no envelope state.
BridgeOnEnvelope(s, env) == s

HandleEnvelope(s, env) ==
    CASE s.app = "regex" -> RegexHandleEnvelope(s, env)
      [] s.app = "loan" -> LoanHandleEnvelope(s, env)
      [] s.app = "appdiscovery" -> AppHandleEnvelope(s, env)
      [] OTHER -> BridgeOnEnvelope(s, env)

RECURSIVE Dispatch(_, _)
\* handleEnvelope called once per envelope the scan hands over, in order.
Dispatch(s, envs) ==
    IF envs = <<>> THEN s ELSE Dispatch(HandleEnvelope(s, Head(envs)), Tail(envs))

\* Was the event before this one a client-side edit?
IsEdit(ev) == ev.op = "edit"

\* app.ontoolresult.  lastEvent records the handleEnvelope calls it led to.
OnToolResult(s, content) ==
    LET envs == ScanForEnvelope(s.app, content)
        first == FirstTextBlock(content)
        s0 == [s EXCEPT !.lastEvent = [op |-> "toolresult", dispatched |-> envs,
                                       afterEdit |-> IsEdit(s.lastEvent)]]
    IN  IF envs # <<>> THEN Dispatch(s0, envs)
        ELSE IF first # <<>> THEN [s0 EXCEPT !.contentEl = RawTextEl(s.app, first[1])]
        ELSE [s0 EXCEPT !.contentEl = NoContentEl]

\* app.ontoolcancelled
OnToolCancelled(s) ==
    [s EXCEPT !.contentEl = CancelledEl,
              !.lastEvent = [op |-> "toolcancelled", afterEdit |-> IsEdit(s.lastEvent)]]

\* app.ontoolinput (appdiscovery): args.keywords, when a non-empty string, is
\* copied into the search box.
OnToolInput(s, keywords) ==
    [s EXCEPT !.searchInput = IF keywords # <<>> THEN keywords ELSE @,
              !.lastEvent = [op |-> "toolinput"]]

\* A catch block that also takes the handlers off the App.
OnConnectFailedDetached(s) ==
    [s EXCEPT !.conn = "failed", !.contentEl = WaitingEl, !.handlers = {},
              !.lastEvent = [op |-> "connectfailed"]]

\* The top-level await app.connect() and what follows it: the Ready placeholder,
\* or in the catch block the Waiting placeholder.  Neither touches the handlers.
OnConnected(s) == [s EXCEPT !.conn = "ready", !.contentEl = ReadyEl,
                            !.lastEvent = [op |-> "connected"]]
OnConnectFailed(s) == [s EXCEPT !.conn = "failed", !.contentEl = WaitingEl,
                                !.lastEvent = [op |-> "connectfailed"]]

Edited(s) == [s EXCEPT !.lastEvent = [op |-> "edit"]]

\* ------------------------------------------------------- View: what arrives
\* Envelopes as the server's handlers build them.
TestEnvelope(pattern, flags, testString) ==
    JsonEnvelope(RegexMarker, "test", testRegex(pattern, flags, testString))
RegexErrorEnvelope(message) ==
    JsonEnvelope(RegexMarker, "error", [error |-> message])
\* The envelope generate_regex answers with (the description is not modelled).
GenerateEnvelope(call) ==
    JsonEnvelope(RegexMarker, "generate", validateRegex(call.pattern, call.flags, call.cases))
SubmittedCases ==
    <<[input |-> <<"a">>, shouldMatch |-> TRUE], [input |-> <<"b">>, shouldMatch |-> TRUE]>>
GenerateCalls ==
    {[pattern |-> "a*", flags |-> <<>>, cases |-> SubmittedCases],
     [pattern |-> "(", flags |-> <<>>, cases |-> SubmittedCases]}
LoanInputA ==
    [principal |-> 1200000, annual_rate |-> 60, term_years |-> 100,
     down_payment |-> <<240000>>, property_tax_rate |-> <<12>>,
     annual_insurance |-> <<>>]
CalculateEnvelope(input) == JsonEnvelope(LoanMarker, "calculate", computeLoan(input))
\* The envelope calculate_loan answers LoanInputA with.
LoanEnvelopeA == CalculateEnvelope(LoanInputA)
LoanErrorEnvelope(message) == JsonEnvelope(LoanMarker, "error", [error |-> message])
SearchEnvelope(results) == JsonEnvelope(AppMarker, "search", [results |-> results])
DetailEnvelope(app) == JsonEnvelope(AppMarker, "detail", [app |-> app])

\* The envelopes of its own app a View is sent.
OwnEnvelopes(v) ==
    CASE v = "regex" -> {TestEnvelope("a*", <<"g">>, <<"a", "a">>),
                         TestEnvelope("(", <<>>, <<"a">>),
                         GenerateEnvelope([pattern |-> "a*", flags |-> <<>>,
                                           cases |-> SubmittedCases]),
                         GenerateEnvelope([pattern |-> "(", flags |-> <<>>,
                                           cases |-> SubmittedCases]),
                         RegexErrorEnvelope("Invalid regular expression")}
      [] v = "loan" -> {LoanEnvelopeA,
                        LoanErrorEnvelope("Principal must be positive")}
      [] v = "appdiscovery" -> {SearchEnvelope(<<AppNee, AppPen>>),
                                DetailEnvelope(<<AppPep>>)}
      [] OTHER -> {SearchEnvelope(<<AppPen>>), SearchEnvelope(<<>>)}

\* An envelope of another app (its marker is not the View's).
ForeignEnvelope(v) ==
    IF v = "loan" THEN RegexErrorEnvelope("Invalid flags")
    ELSE LoanErrorEnvelope("Term must be positive")

\* The content blocks a tool-result may carry: the text line for the AI, the
\* text "null", an image, another app's envelope, the View's own envelopes.
Blocks(v) ==
    {TextBlock(PlainText(<<"<", "\"", "b">>)), TextBlock(JsonNull), ImageBlock,
     TextBlock(ForeignEnvelope(v))}
    \cup {TextBlock(e) : e \in OwnEnvelopes(v)}

Contents(v) == UNION {[1..n -> Blocks(v)] : n \in 0..MaxBlocks}

\* What the user types or picks.
EditPatterns == {"a", "("}
EditFlags == {<<>>}
EditStrings == {<<"b", "a">>}
GenerateEditFlags == {<<>>, <<"g">>}
SliderRates == {0, 45}
SliderTerms == {50}
SliderDowns == {0, 50}
Keywords == {<<"p", " ", "e">>}
TypedQueries == {<<>>, <<"P">>}
SortKeys == {"rating", "price", "name"}

\* ------------------------------------------------------------ View: actions
ViewConnect ==
    /\ ui.conn = "connecting"
    /\ ui' = OnConnected(ui)
    /\ UNCHANGED <<request, response, host>>

ViewConnectFail ==
    /\ ui.conn = "connecting"
    /\ ui' = OnConnectFailed(ui)
    /\ UNCHANGED <<request, response, host>>

\* A tool-result reaches the View: after the handshake, or later on a View whose
\* connect failed, if its transport still hears the host.
ViewToolResult ==
    /\ ui.conn \in {"ready", "failed"}
    /\ "toolresult" \in ui.handlers
    /\ \E content \in Contents(ui.app) : ui' = OnToolResult(ui, content)
    /\ UNCHANGED <<request, response, host>>

ViewToolCancelled ==
    /\ ui.conn \in {"ready", "failed"}
    /\ "toolcancelled" \in ui.handlers
    /\ ui' = OnToolCancelled(ui)
    /\ UNCHANGED <<request, response, host>>

ViewToolInput ==
    /\ ui.conn = "ready"
    /\ ui.app = "appdiscovery"
    /\ \E keywords \in Keywords \cup {<<>>} : ui' = OnToolInput(ui, keywords)
    /\ UNCHANGED <<request, response, host>>

\* An input event on the pattern, flags or test-string field of the test mode:
\* rerun() reads all three fields.
RegexEdit ==
    /\ ui.app = "regex"
    /\ ui.contentEl.kind = "test"
    /\ \/ \E p \in EditPatterns :
            ui' = Edited(RegexRerun(ui, p, ui.contentEl.flagsInput, ui.contentEl.testTextarea))
       \/ \E f \in EditFlags :
            ui' = Edited(RegexRerun(ui, ui.contentEl.patternInput, f, ui.contentEl.testTextarea))
       \/ \E str \in EditStrings :
            ui' = Edited(RegexRerun(ui, ui.contentEl.patternInput, ui.contentEl.flagsInput, str))
    /\ UNCHANGED <<request, response, host>>

\* The user edits the pattern or the flags of the generate mode.
RegexGenerateEdit ==
    /\ ui.app = "regex"
    /\ ui.contentEl.kind = "generate"
    /\ \/ \E p \in EditPatterns :
            ui' = Edited(RegexGenerateRerun(ui, p, ui.contentEl.flagsInput))
       \/ \E f \in GenerateEditFlags :
            ui' = Edited(RegexGenerateRerun(ui, ui.contentEl.patternInput, f))
    /\ UNCHANGED <<request, response, host>>

\* An input event on one of the three sliders of the calculate mode: update()
\* reads all three sliders.
LoanSlide ==
    /\ ui.app = "loan"
    /\ ui.contentEl.kind = "calculate"
    /\ \/ \E r \in SliderRates :
            ui' = Edited(LoanSliderUpdate(ui, r, ui.contentEl.sliderTerm, ui.contentEl.sliderDown))
       \/ \E y \in SliderTerms :
            ui' = Edited(LoanSliderUpdate(ui, ui.contentEl.sliderRate, y, ui.contentEl.sliderDown))
       \/ \E d \in SliderDowns :
            ui' = Edited(LoanSliderUpdate(ui, ui.contentEl.sliderRate, ui.contentEl.sliderTerm, d))
    /\ UNCHANGED <<request, response, host>>

ListShown(s) == s.app = "appdiscovery" /\ ~s.detailActive

\* Typing in the search box changes its value only.
AppType ==
    /\ ListShown(ui)
    /\ \E q \in TypedQueries : ui' = Edited([ui EXCEPT !.searchInput = q])
    /\ UNCHANGED <<request, response, host>>

\* doSearch: the search button or Enter.
doSearch(s) ==
    IF s.currentViewType = "search" \/ s.currentViewType = "alternatives"
    THEN renderSearchView(s) ELSE s

AppSearch ==
    /\ ListShown(ui)
    /\ ui' = Edited(doSearch(ui))
    /\ UNCHANGED <<request, response, host>>

\* A click on a category button of the toolbar ("" is the All button).
AppCategoryClick ==
    /\ ListShown(ui)
    /\ ui.toolbar = "flex"
    /\ \E cat \in {""} \cup {ui.allApps[i].category : i \in 1..Len(ui.allApps)} :
          ui' = Edited(renderSearchView([ui EXCEPT !.currentCategory = cat]))
    /\ UNCHANGED <<request, response, host>>

\* A click on a sort button; the buttons exist when more than one app is listed.
AppSortClick ==
    /\ ListShown(ui)
    /\ ui.toolbar = "flex"
    /\ Len(ui.allApps) > 1
    /\ \E k \in SortKeys : ui' = Edited(renderSearchView([ui EXCEPT !.currentSort = k]))
    /\ UNCHANGED <<request, response, host>>

\* A click on a card: the detail panel of filtered[idx], when there is one.
AppCardClick ==
    /\ ListShown(ui)
    /\ ui.contentEl.kind = "cards"
    /\ \E idx \in 1..Len(ui.contentEl.cards) :
          LET filtered == getFilteredSorted(ui)
          IN  ui' = Edited(IF idx <= Len(filtered) THEN showDetailView(ui, filtered[idx])
                           ELSE ui)
    /\ UNCHANGED <<request, response, host>>

\* The back button of the detail panel.
AppBack ==
    /\ ui.app = "appdiscovery"
    /\ ui.detailActive
    /\ ui' = Edited(showList(ui))
    /\ UNCHANGED <<request, response, host>>

InitViewSpec ==
    /\ \E v \in Views : ui = InitView(v)
    /\ request = NoRequest
    /\ response = NoResponse
    /\ host = NoMessage

NextView ==
    \/ ViewConnect
    \/ ViewConnectFail
    \/ ViewToolResult
    \/ ViewToolCancelled
    \/ ViewToolInput
    \/ RegexEdit
    \/ RegexGenerateEdit
    \/ LoanSlide
    \/ AppType
    \/ AppSearch
    \/ AppCategoryClick
    \/ AppSortClick
    \/ AppCardClick
    \/ AppBack

SpecView == InitViewSpec /\ [][NextView]_vars

\* ----------------------------------------------------------- SpecScan
\* A first tool-result carrying one envelope of the View's app, right after
\* connect: it fills the View's cached envelope state.
ScanPrior ==
    /\ ui.lastEvent.op = "connected"
    /\ ~host.sent
    /\ \E e \in OwnEnvelopes(ui.app) : ui' = OnToolResult(ui, <<TextBlock(e)>>)
    /\ UNCHANGED <<request, response, host>>

\* The tool-result under study: the host records the message it posts.
ScanDeliver ==
    /\ ui.conn = "ready"
    /\ ~host.sent
    /\ \E content \in Contents(ui.app) :
          /\ ui' = OnToolResult(ui, content)
          /\ host' = [sent |-> TRUE, content |-> content]
    /\ UNCHANGED <<request, response>>

NextScan ==
    \/ ViewConnect
    \/ ViewConnectFail
    \/ ScanPrior
    \/ ScanDeliver

SpecScan == InitViewSpec /\ [][NextScan]_vars

\* ------------------------------------------------------ tool handlers
\* What a handler call comes to: a ToolResult {text, json}, or a thrown Error.
\* Text is a sequence of pieces (its opening words, then the pattern, flags or
\* message it quotes); json is the envelope object.
Json(marker, viewType, data) == [marker |-> marker, viewType |-> viewType, data |-> data]
NoJson == Json("", "", <<>>)
Return(text, json) == [threw |-> FALSE, message |-> "", text |-> text, json |-> json]
Throw(message) == [threw |-> TRUE, message |-> message, text |-> <<>>, json |-> NoJson]

\* JSON.stringify(result.json): the text of a block, as JSON.parse reads it back.
JsonStringify(json) == JsonEnvelope(json.marker, json.viewType, json.data)

\* input.down_payment && input.down_payment >= input.principal
DownPaymentTooLarge(input) ==
    /\ input.down_payment # <<>>
    /\ input.down_payment[1] # 0
    /\ input.down_payment[1] >= input.principal

\* handleCalculateLoan
handleCalculateLoan(input) ==
    IF input.principal <= 0 THEN Throw("Principal must be positive")
    ELSE IF input.annual_rate < 0 THEN Throw("Rate cannot be negative")
    ELSE IF input.term_years <= 0 THEN Throw("Term must be positive")
    ELSE IF DownPaymentTooLarge(input) THEN Throw("Down payment must be less than principal")
    ELSE LET result == computeLoan(input)
         IN  Return(<<"Loan Calculation:">>,
                    Json(LoanMarker, "calculate", result))

\* One pass of the for loop of handleAmortizationSchedule: the row pushed for
\* `month`, given the interest of the month and the balance after it.
AmortizationRow(month, monthlyPayment, interestPortion, principalPortion, balance) ==
    [month |-> month, payment |-> round2(monthlyPayment),
     principalPortion |-> round2(principalPortion),
     interestPortion |-> round2(interestPortion),
     remainingBalance |-> round2(IF DNegative(balance) THEN DZero ELSE balance)]

RECURSIVE AmortizationRows(_, _, _, _, _, _, _)
\* for (month = 1; month <= termMonths; month++): the schedule and the
\* unrounded sum of the interest portions, added in month order.  The schedule
\* holds month - 1 rows here and a sign is never 0: the two tests have the rows
\* and the sum computed before the next pass.
AmortizationRows(balance, totalInterest, schedule, monthlyRate, monthlyPayment, month, termMonths) ==
    IF DLess(termMonths, DFromInt(month)) \/ Len(schedule) >= month \/ totalInterest.s = 0
    THEN [schedule |-> schedule, totalInterest |-> totalInterest]
    ELSE LET interestPortion == DMul(balance, monthlyRate)
             principalPortion == DSub(monthlyPayment, interestPortion)
             after == DSub(balance, principalPortion)
         IN  AmortizationRows(after, DAdd(totalInterest, interestPortion),
                              Append(schedule,
                                     AmortizationRow(month, monthlyPayment, interestPortion,
                                                     principalPortion, after)),
                              monthlyRate, monthlyPayment, month + 1, termMonths)

\* The text loop of handleAmortizationSchedule reads schedule[i].month for every
\* whole i < Math.min(12, termMonths); a row that is not there is undefined, and
\* reading a property of undefined throws a TypeError.
TextReadsMissingRow(termMonths, schedule) ==
    \E i \in 0..11 : /\ DLess(DFromInt(i), termMonths)
                     /\ i >= Len(schedule)

AmortizationResult(input, loanAmount, termMonths, monthlyPayment, loop) ==
    IF TextReadsMissingRow(termMonths, loop.schedule)
    THEN Throw("Cannot read properties of undefined (reading 'month')")
    ELSE Return(<<"Amortization Schedule for">>,
                Json(LoanMarker, "amortization",
                     [loanAmount |-> round2(loanAmount), annualRate |-> input.annual_rate,
                      termYears |-> input.term_years, termMonths |-> termMonths,
                      monthlyPayment |-> round2(monthlyPayment),
                      totalInterest |-> round2(loop.totalInterest),
                      schedule |-> loop.schedule]))
AmortizationPaid(input, loanAmount, monthlyRate, termMonths, monthlyPayment) ==
    AmortizationResult(input, loanAmount, termMonths, monthlyPayment,
                       AmortizationRows(loanAmount, DZero, <<>>, monthlyRate, monthlyPayment,
                                        1, termMonths))
AmortizationOf(input, loanAmount, monthlyRate, termMonths) ==
    AmortizationPaid(input, loanAmount, monthlyRate, termMonths,
                     calculateMonthlyPayment(loanAmount, monthlyRate, termMonths))

\* handleAmortizationSchedule
handleAmortizationScheduleImpl(input) ==
    IF input.principal <= 0 THEN Throw("Principal must be positive")
    ELSE IF input.annual_rate < 0 THEN Throw("Rate cannot be negative")
    ELSE IF input.term_years <= 0 THEN Throw("Term must be positive")
    ELSE AmortizationOf(input,
                        DSub(Dollars(input.principal), Dollars(OrZero(input.down_payment))),
                        DDiv(DDiv(Tenths(input.annual_rate), D100), D12),
                        DMul(Tenths(input.term_years), D12))

RECURSIVE MapScenarios(_)
\* input.scenarios.map(s => { validate; return computeLoan(s) }): the results, or
\* the first throw.
MapScenarios(scenarios) ==
    IF scenarios = <<>> THEN [threw |-> FALSE, message |-> "", results |-> <<>>]
    ELSE LET s == Head(scenarios)
         IN  IF s.principal <= 0
             THEN [threw |-> TRUE, message |-> "Principal must be positive", results |-> <<>>]
             ELSE IF s.annual_rate < 0
             THEN [threw |-> TRUE, message |-> "Rate cannot be negative", results |-> <<>>]
             ELSE IF s.term_years <= 0
             THEN [threw |-> TRUE, message |-> "Term must be positive", results |-> <<>>]
             ELSE LET rest == MapScenarios(Tail(scenarios))
                  IN  IF rest.threw THEN rest
                      ELSE [rest EXCEPT !.results = <<computeLoan(s)>> \o @]

RECURSIVE ReduceBest(_, _, _, _)
\* results.reduce((best, r, i) => Key(r) < Key(results[best]) ? i : best, 0), 0-based.
ReduceBest(Key(_), results, i, best) ==
    IF i >= Len(results) THEN best
    ELSE ReduceBest(Key, results, i + 1,
                    IF DLess(Key(results[i + 1]), Key(results[best + 1])) THEN i ELSE best)

MonthlyTotalOf(r) == r.monthlyTotal
TotalInterestOf(r) == r.totalInterest
TotalCostOf(r) == r.totalCost

RECURSIVE ReduceLast(_, _, _, _)
\* A reduce that also moves to a result that is not greater: the last of the
\* least wins.
ReduceLast(Key(_), results, i, best) ==
    IF i >= Len(results) THEN best
    ELSE ReduceLast(Key, results, i + 1,
                    IF DLess(Key(results[best + 1]), Key(results[i + 1])) THEN best ELSE i)
handleCompareLoansLast(input) ==
    IF Len(input.scenarios) < 2 THEN Throw("Compare requires at least 2 loan scenarios")
    ELSE IF Len(input.scenarios) > 4 THEN Throw("Compare supports at most 4 loan scenarios")
    ELSE LET mapped == MapScenarios(input.scenarios)
         IN  IF mapped.threw THEN Throw(mapped.message)
             ELSE LET results == mapped.results
                      compare == [scenarios |-> results,
                                  bestMonthly |-> ReduceLast(MonthlyTotalOf, results, 0, 0),
                                  bestTotalInterest |->
                                      ReduceLast(TotalInterestOf, results, 0, 0),
                                  bestTotalCost |-> ReduceLast(TotalCostOf, results, 0, 0)]
                  IN  Return(<<"Loan Comparison">>,
                             Json(LoanMarker, "compare", compare))

\* handleCompareLoans
handleCompareLoansImpl(input) ==
    IF Len(input.scenarios) < 2 THEN Throw("Compare requires at least 2 loan scenarios")
    ELSE IF Len(input.scenarios) > 4 THEN Throw("Compare supports at most 4 loan scenarios")
    ELSE LET mapped == MapScenarios(input.scenarios)
         IN  IF mapped.threw THEN Throw(mapped.message)
             ELSE LET results == mapped.results
                      compare == [scenarios |-> results,
                                  bestMonthly |-> ReduceBest(MonthlyTotalOf, results, 0, 0),
                                  bestTotalInterest |->
                                      ReduceBest(TotalInterestOf, results, 0, 0),
                                  bestTotalCost |-> ReduceBest(TotalCostOf, results, 0, 0)]
                  IN  Return(<<"Loan Comparison">>,
                             Json(LoanMarker, "compare", compare))

\* input.flags ?? ""
FlagsOrEmpty(input) == IF input.flags = <<>> THEN <<>> ELSE input.flags[1]

\* The text and envelope handleTestRegex builds from testRegex's result.
TestToolResult(input, flags, result) ==
    IF result.error # NoError
    THEN Return(<<"Error: Invalid regex /", input.pattern, "/">> \o flags
                \o <<" - ", result.error>>,
                Json(RegexMarker, "test", result))
    ELSE Return(<<IF result.matchCount = 0 THEN "No matches found" ELSE "Found">>,
                Json(RegexMarker, "test", result))

\* handleTestRegex
handleTestRegex(input) ==
    TestToolResult(input, FlagsOrEmpty(input),
                   testRegex(input.pattern, FlagsOrEmpty(input), input.test_string))

\* The characters of the patterns of the model.
PatternText(pattern) ==
    CASE pattern = "a" -> <<"a">>
      [] pattern = "a*" -> <<"a", "*">>
      [] pattern = "(a)" -> <<"(", "a", ")">>
      [] OTHER -> <<"(">>

\* explainRegex: the pattern, the flags, the tokens and the descriptions of the
\* known flags (buildSummary is not part of this model).
KnownFlags == {"g", "i", "m", "s", "u", "y", "d"}
KnownFlag(f) == f \in KnownFlags
explainRegex(pattern, flags) ==
    [pattern |-> pattern, flags |-> flags, tokens |-> tokenize(PatternText(pattern)),
     flagDescriptions |-> Filter(KnownFlag, flags)]

\* handleExplainRegex
handleExplainRegex(input) ==
    LET flags == FlagsOrEmpty(input)
        re == NewRegExp(input.pattern, flags)
    IN  IF ~re.ok
        THEN Return(<<"Invalid regex: ", re.message>>,
                    Json(RegexMarker, "error",
                         [error |-> re.message, pattern |-> input.pattern, flags |-> flags]))
        ELSE Return(<<"Regex breakdown for /", input.pattern, "/">> \o flags,
                    Json(RegexMarker, "explain", explainRegex(input.pattern, flags)))

\* { ...result, description: input.description || "" }
WithDescription(result, description) ==
    [pattern |-> result.pattern, flags |-> result.flags,
     results |-> result.results, passCount |-> result.passCount,
     totalCount |-> result.totalCount, error |-> result.error,
     description |-> description]

\* The text and envelope handleGenerateRegex builds from validateRegex's result.
GenerateToolResult(input, flags, result) ==
    IF result.error # NoError
    THEN Return(<<"Error: Invalid regex /", input.pattern, "/">> \o flags
                \o <<" - ", result.error>>,
                Json(RegexMarker, "generate", WithDescription(result, input.description)))
    ELSE Return(<<"Regex validation for /", input.pattern, "/">> \o flags,
                Json(RegexMarker, "generate", WithDescription(result, input.description)))

\* handleGenerateRegex
handleGenerateRegex(input) ==
    GenerateToolResult(input, FlagsOrEmpty(input),
                       validateRegex(input.pattern, FlagsOrEmpty(input), input.test_cases))

\* handleCommonPatterns
handleCommonPatterns(input) ==
    Return(<<"Common regex patterns", input.category>>,
           Json(RegexMarker, "cheatsheet", [activeCategory |-> OrAll(input.category)]))

\* The arguments are values before the operation starts.
Js(op, a) ==
    IF Len(a) = 0 THEN a
    ELSE CASE op = "DFromInt" -> DFromIntImpl(a[1])
          [] op = "DMul" -> DMulImpl(a[1], a[2])
          [] op = "DDiv" -> DDivImpl(a[1], a[2])
          [] op = "DAdd" -> DAddImpl(a[1], a[2])
          [] op = "DSub" -> DSubImpl(a[1], a[2])
          [] op = "DLess" -> DLessImpl(a[1], a[2])
          [] op = "MathRound" -> MathRoundImpl(a[1])
          [] op = "MathFloor" -> MathFloorImpl(a[1])
          [] op = "IsInteger" -> IsIntegerImpl(a[1])
          [] op = "round2" -> round2Impl(a[1])
          [] op = "MathPow" -> MathPowImpl(a[1], a[2])
          [] op = "computeLoan" -> computeLoanImpl(a[1])
          [] op = "recalcFromSliders" -> recalcFromSlidersImpl(a[1], a[2], a[3], a[4])
          [] op = "fmt" -> fmtImpl(a[1])
          [] op = "DownPct" -> DownPctImpl(a[1])
          [] op = "handleAmortizationSchedule" -> handleAmortizationScheduleImpl(a[1])
          [] op = "handleCompareLoans" -> handleCompareLoansImpl(a[1])

\* ------------------------------------------------------ delivery paths
Apps == {"loan", "regex"}
LoanTools == {"calculate_loan", "amortization_schedule", "compare_loans"}
RegexTools == {"test_regex", "explain_regex", "generate_regex", "common_patterns"}

\* The handler a tool name is registered with.
Handler(app, tool, args) ==
    CASE tool = "calculate_loan" -> handleCalculateLoan(args)
      [] tool = "amortization_schedule" -> handleAmortizationSchedule(args)
      [] tool = "compare_loans" -> handleCompareLoans(args)
      [] tool = "test_regex" -> handleTestRegex(args)
      [] tool = "explain_regex" -> handleExplainRegex(args)
      [] tool = "generate_regex" -> handleGenerateRegex(args)
      [] OTHER -> handleCommonPatterns(args)

\* The zod input schemas of the loan tools (rates in tenths of a percent).
ScenarioSchemaOk(s) ==
    /\ s.principal > 0
    /\ s.annual_rate >= 0 /\ s.annual_rate <= 300
    /\ s.term_years > 0 /\ s.term_years <= 500
    /\ OrZero(s.down_payment) >= 0
    /\ OrZero(s.property_tax_rate) >= 0 /\ OrZero(s.property_tax_rate) <= 100
    /\ OrZero(s.annual_insurance) >= 0
SchemaOk(app, tool, args) ==
    IF app = "regex" THEN TRUE
    ELSE IF tool = "compare_loans"
         THEN /\ Len(args.scenarios) >= 2 /\ Len(args.scenarios) <= 4
              /\ \A i \in 1..Len(args.scenarios) : ScenarioSchemaOk(args.scenarios[i])
         ELSE ScenarioSchemaOk(args)

\* makeHandler (loan and regex): the handler's result as two text blocks, or, when
\* it throws, 'Error: <message>' and an error envelope.
Wrapped(text, json) ==
    [NoResponse EXCEPT
        !.via = "mcp",
        !.content = <<TextBlock(PlainText(text)), TextBlock(JsonStringify(json))>>,
        !.structuredContent = <<json>>]
TryCatch(result, marker) ==
    IF ~result.threw THEN Wrapped(result.text, result.json)
    ELSE Wrapped(<<"Error: ", result.message>>,
                 Json(marker, "error", [error |-> result.message]))
makeHandler(app, tool, args) ==
    TryCatch(Handler(app, tool, args), IF app = "loan" THEN LoanMarker ELSE RegexMarker)

\* A tools/call over MCP: arguments failing the input schema are refused before
\* the registered handler runs.
McpToolCall(app, tool, args) ==
    IF SchemaOk(app, tool, args) THEN makeHandler(app, tool, args)
    ELSE [NoResponse EXCEPT !.via = "mcp", !.error = "Invalid arguments"]

\* Does the app module define callTool?  (loan does, regex does not.)
HasCallTool(app) == app = "loan"

\* loanApp.callTool: the handlers called directly.
callTool(app, tool, args) ==
    IF tool \in LoanTools THEN Handler(app, tool, args)
    ELSE Throw("Unknown tool")

\* POST /api/<app>/tool
RestReply(result) ==
    IF ~result.threw
    THEN [NoResponse EXCEPT !.via = "rest", !.status = 200,
                            !.body = <<[text |-> result.text, json |-> result.json]>>]
    ELSE [NoResponse EXCEPT !.via = "rest", !.status = 400, !.error = result.message]
RestToolCall(app, tool, args) ==
    IF ~HasCallTool(app)
    THEN [NoResponse EXCEPT !.via = "rest", !.status = 404, !.error = "App not found"]
    ELSE RestReply(callTool(app, tool, args))

\* ----------------------------------------------------------- SpecTools
\* Arguments a caller may send.  Over REST nothing checks them before the
\* handler; over MCP the input schema does.
NoOpt == <<>>
LoanArgs ==
    [principal : {0, 1200000}, annual_rate : {0 - 10, 0, 60}, term_years : {0, 10},
     down_payment : {NoOpt, <<0>>, <<240000>>, <<1200000>>},
     property_tax_rate : {NoOpt}, annual_insurance : {NoOpt}]
ScenarioA == [principal |-> 1200000, annual_rate |-> 60, term_years |-> 10,
              down_payment |-> NoOpt, property_tax_rate |-> NoOpt,
              annual_insurance |-> NoOpt]
ScenarioB == [ScenarioA EXCEPT !.annual_rate = 45, !.down_payment = <<1300000>>]
ScenarioC == [ScenarioA EXCEPT !.principal = 0]
Scenarios == {ScenarioA, ScenarioB, ScenarioC}
CompareArgs ==
    {[scenarios |-> s] : s \in UNION {[1..n -> Scenarios] : n \in 1..2}}
    \cup {[scenarios |-> <<ScenarioA, ScenarioA, ScenarioA, ScenarioA, ScenarioA>>]}
OptFlags == {NoOpt, << <<"g">> >>, << <<"z">> >>}
TestArgs ==
    [pattern : Patterns, flags : OptFlags, test_string : {<<"a", "a">>, <<"b">>}]
ExplainArgs == [pattern : Patterns, flags : OptFlags]
CaseSets ==
    {<<[input |-> <<"a">>, shouldMatch |-> TRUE]>>,
     <<[input |-> <<"a">>, shouldMatch |-> TRUE], [input |-> <<"b">>, shouldMatch |-> TRUE]>>}
GenerateArgs ==
    [pattern : Patterns, flags : OptFlags, test_cases : CaseSets, description : {""}]
PatternsArgs == [category : {"", "Web"}]

ArgsOf(tool) ==
    CASE tool = "calculate_loan" -> LoanArgs
      [] tool = "amortization_schedule" -> LoanArgs
      [] tool = "compare_loans" -> CompareArgs
      [] tool = "test_regex" -> TestArgs
      [] tool = "explain_regex" -> ExplainArgs
      [] tool = "generate_regex" -> GenerateArgs
      [] OTHER -> PatternsArgs

ToolsOf(app) == IF app = "loan" THEN LoanTools ELSE RegexTools

\* A tools/call request served over the MCP registration.  The handlers keep
\* nothing from one request to the next: one request is followed to its reply.
McpCall ==
    /\ request = NoRequest
    /\ \E app \in Apps : \E tool \in ToolsOf(app) : \E args \in ArgsOf(tool) :
          /\ request' = [via |-> "mcp", app |-> app, tool |-> tool, args |-> args]
          /\ response' = McpToolCall(app, tool, args)
    /\ UNCHANGED <<ui, host>>

\* A POST /api/<app>/tool request.
RestCall ==
    /\ request = NoRequest
    /\ \E app \in Apps : \E tool \in ToolsOf(app) : \E args \in ArgsOf(tool) :
          /\ request' = [via |-> "rest", app |-> app, tool |-> tool, args |-> args]
          /\ response' = RestToolCall(app, tool, args)
    /\ UNCHANGED <<ui, host>>

InitTools ==
    /\ ui = InitView("loan")
    /\ request = NoRequest
    /\ response = NoResponse
    /\ host = NoMessage

NextTools ==
    \/ McpCall
    \/ RestCall

SpecTools == InitTools /\ [][NextTools]_vars

\* ------------------------------------------------------------ SpecHost
\* One View iframe as its host sees it, with the two postMessage directions.
\*   frame   "loading" (srcdoc set), "loaded", "removed" (chat cleared)
\*   bridge  "none", "open" (transport listening), "closed"
\*   view    "start", "requested" (ui/initialize sent), "ready" (connect resolved)
\*   hostContext  the theme of the bridge's host context ("" without a bridge)
\*   offered      the theme of the host context in the ui/initialize response
\*   theme        the theme the View applied last ("" for the one it detects itself)
NewView(app, content) ==
    [app |-> app, frame |-> "loading", bridge |-> "none", view |-> "start",
     toHost |-> <<>>, toView |-> <<>>, initialized |-> FALSE,
     sent |-> 0, received |-> 0, hostContext |-> "", offered |-> "", theme |-> "",
     toolResult |-> content]

\* ui/notifications/host-context-changed carrying a theme.
ContextChanged(theme) == IF theme = "dark" THEN "context-dark" ELSE "context-light"
ContextMessages == {"context-dark", "context-light"}
ThemeOf(msg) == IF msg = "context-dark" THEN "dark" ELSE "light"

\* bridge.setHostContext(getHostContext()): the AppBridge keeps the context and
\* notifies the View of the keys that changed; on a closed bridge the call
\* throws and the callers ignore it.
setHostContext(inst, theme) ==
    IF inst.bridge # "open" \/ inst.hostContext = theme THEN inst
    ELSE [inst EXCEPT !.hostContext = theme, !.toView = Append(@, ContextChanged(theme))]

\* The content setupViewBridge sends: the text line and the stringified envelope.
SimContent(reply) ==
    <<TextBlock(PlainText(reply.body[1].text)), TextBlock(JsonStringify(reply.body[1].json))>>

\* A host that sends the tool result as soon as the View asks to initialize.
HostOnMessageEager(kind, theme, inst, msg) ==
    IF msg = "initialize"
    THEN [inst EXCEPT !.toView = Append(Append(@, "initialize-response"), "tool-result"),
                      !.offered = inst.hostContext, !.sent = @ + 1]
    ELSE inst

\* Host side of one message from the View.
\*   simulator: the AppBridge answers ui/initialize itself and calls
\*              bridge.oninitialized on ui/notifications/initialized, which sets the
\*              host context and sends the tool result;
\*   harness:   answers ui/initialize; on ui/notifications/initialized it only
\*              starts the 100 ms timer (counted in host.timers by the action).
HostOnMessage(kind, theme, inst, msg) ==
    CASE msg = "initialize" ->
           [inst EXCEPT !.toView = Append(@, "initialize-response"),
                        !.offered = inst.hostContext]
      [] msg = "initialized" /\ kind = "simulator" ->
           [setHostContext(inst, theme) EXCEPT
               !.initialized = TRUE,
               !.toView = Append(setHostContext(inst, theme).toView, "tool-result"),
               !.sent = @ + 1]
      [] msg = "initialized" /\ kind = "harness" ->
           [inst EXCEPT !.initialized = TRUE]
      [] OTHER -> inst

\* View side of one message from the host (App.connect of ext-apps, then the
\* View's ontoolresult).
ViewOnMessage(inst, msg) ==
    CASE msg = "initialize-response" /\ inst.view = "requested" ->
           [inst EXCEPT !.view = "ready", !.theme = inst.offered,
                        !.toHost = Append(@, "initialized")]
      [] msg = "tool-result" -> [inst EXCEPT !.received = @ + 1]
      [] msg \in ContextMessages -> [inst EXCEPT !.theme = ThemeOf(msg)]
      [] OTHER -> inst

SimApps == {"loan", "regex"}
\* The prompts of the simulator's APPS table, one per app.
SimPrompts(app) ==
    IF app = "loan"
    THEN {[tool |-> "calculate_loan", args |-> [LoanInputA EXCEPT !.term_years = 10]]}
    ELSE {[tool |-> "test_regex",
           args |-> [pattern |-> "a", flags |-> << <<"g">> >>, test_string |-> <<"a">>]]}

InitSimulator ==
    [kind |-> "simulator", currentApp |-> "loan", currentTheme |-> "light",
     isProcessing |-> FALSE, step |-> "idle", reply |-> NoResponse, detached |-> FALSE,
     views |-> <<>>, activeBridges |-> <<>>, toggles |-> 0,
     timers |-> 0, readyTimers |-> 0, screenshotReady |-> FALSE]

\* The screenshot page: the harness listens from the init script on, the View is
\* the page itself.
InitHarness ==
    [InitSimulator EXCEPT
        !.kind = "harness",
        !.views = <<[NewView("regex", <<TextBlock(TestEnvelope("a", <<"g">>, <<"a">>))>>)
                     EXCEPT !.frame = "loaded", !.bridge = "open"]>>]

\* handlePrompt up to its first await: callTool and fetchViewHtml are started.
SimHandlePrompt ==
    /\ host.kind = "simulator"
    /\ ~host.isProcessing
    /\ Len(host.views) < MaxViews
    /\ \E prompt \in SimPrompts(host.currentApp) :
          host' = [host EXCEPT !.isProcessing = TRUE, !.step = "calling",
                               !.detached = FALSE,
                               !.reply = RestToolCall(host.currentApp, prompt.tool,
                                                      prompt.args)]
    /\ UNCHANGED <<ui, request, response>>

\* Promise.all settles: both fetches succeeded (the reply is typed out next), or
\* one failed and the catch block shows the error.
SimToolReturned ==
    /\ host.kind = "simulator"
    /\ host.step = "calling"
    /\ \E viewOk \in BOOLEAN :
          host' = IF host.reply.status = 200 /\ viewOk
                  THEN [host EXCEPT !.step = "typing"]
                  ELSE [host EXCEPT !.step = "idle", !.isProcessing = FALSE]
    /\ UNCHANGED <<ui, request, response>>

\* typeText is done: addViewFrame, and setupViewBridge sets srcdoc and waits for
\* the load event.  A frame added to a message removed from the chat never loads.
SimAddFrame ==
    /\ host.kind = "simulator"
    /\ host.step = "typing"
    /\ host' = [host EXCEPT
                   !.step = "loading",
                   !.views = Append(@, [NewView(host.currentApp, SimContent(host.reply))
                                        EXCEPT !.frame = IF host.detached THEN "removed"
                                                         ELSE "loading"])]
    /\ UNCHANGED <<ui, request, response>>

\* bridge.connect resolved: activeBridges.push, and handlePrompt finishes.
SimBridgeConnected(h) ==
    [h EXCEPT !.step = "idle", !.isProcessing = FALSE,
              !.activeBridges = Append(@, Len(h.views))]

\* The load event: the AppBridge is created with the host context of the moment
\* and bridge.connect starts the transport.  PostMessageTransport.start only adds
\* the message listener, so the promise of connect resolves in the microtasks of
\* the load event's task: no click and no message comes between the creation of
\* the bridge and the push to activeBridges.
SimFrameLoad ==
    /\ host.kind = "simulator"
    /\ host.step = "loading"
    /\ host.views[Len(host.views)].frame = "loading"
    /\ host' = SimBridgeConnected(
                   [host EXCEPT !.views[Len(host.views)].frame = "loaded",
                                !.views[Len(host.views)].bridge = "open",
                                !.views[Len(host.views)].hostContext = host.currentTheme])
    /\ UNCHANGED <<ui, request, response>>

\* A toggle that changes the host's own theme only.
setThemeLocal(h, theme) == [h EXCEPT !.currentTheme = theme]

\* setTheme: the host's theme, then setHostContext on every bridge of
\* activeBridges.
setTheme(h, theme) ==
    [h EXCEPT !.currentTheme = theme,
              !.views = [i \in 1..Len(h.views) |->
                           IF \E k \in 1..Len(h.activeBridges) : h.activeBridges[k] = i
                           THEN setHostContext(h.views[i], theme) ELSE h.views[i]]]

\* The click on the theme toggle.
SimToggleTheme ==
    /\ host.kind = "simulator"
    /\ host.toggles < MaxToggles
    /\ host' = [setTheme(host, IF host.currentTheme = "light" THEN "dark" ELSE "light")
                EXCEPT !.toggles = host.toggles + 1]
    /\ UNCHANGED <<ui, request, response>>

\* A switch that empties the chat and leaves the bridges as they are.
switchAppKeep(h, app) ==
    [h EXCEPT !.currentApp = app,
              !.detached = h.detached \/ h.step = "typing",
              !.views = [i \in 1..Len(h.views) |-> [h.views[i] EXCEPT !.frame = "removed"]]]

\* switchApp: clearChat empties the chat and closes the bridges of activeBridges.
\* A reply being typed is in a message that leaves the document with the chat; a
\* reply still being fetched gets its message, and its frame, in the new chat.
switchApp(h, app) ==
    [h EXCEPT !.currentApp = app,
              !.detached = h.detached \/ h.step = "typing",
              !.activeBridges = <<>>,
              !.views = [i \in 1..Len(h.views) |->
                           [h.views[i] EXCEPT
                               !.frame = "removed",
                               !.bridge = IF \E k \in 1..Len(h.activeBridges) :
                                               h.activeBridges[k] = i
                                          THEN "closed" ELSE @]]]

SimSwitchApp ==
    /\ host.kind = "simulator"
    /\ \E app \in SimApps : host' = switchApp(host, app)
    /\ UNCHANGED <<ui, request, response>>

\* The View's script runs: app.connect() posts ui/initialize.
ViewSendInitialize ==
    /\ \E i \in 1..Len(host.views) :
          /\ host.views[i].frame # "removed"
          /\ host.views[i].view = "start"
          /\ host' = [host EXCEPT !.views[i].view = "requested",
                                  !.views[i].toHost = Append(@, "initialize")]
    /\ UNCHANGED <<ui, request, response>>

\* A message from a View reaches the host window; without an open bridge nobody
\* listens and it is lost.
HostReceive ==
    /\ \E i \in 1..Len(host.views) :
          /\ host.views[i].toHost # <<>>
          /\ LET inst == [host.views[i] EXCEPT !.toHost = Tail(@)]
                 msg == Head(host.views[i].toHost)
             IN  host' = [host EXCEPT
                             !.views[i] = IF inst.bridge = "open"
                                          THEN HostOnMessage(host.kind, host.currentTheme,
                                                             inst, msg)
                                          ELSE inst,
                             !.timers = IF host.kind = "harness" /\ msg = "initialized"
                                        THEN @ + 1 ELSE @]
    /\ UNCHANGED <<ui, request, response>>

\* A message from the host reaches the View's window.
ViewReceive ==
    /\ \E i \in 1..Len(host.views) :
          /\ host.views[i].toView # <<>>
          /\ host.views[i].frame # "removed"
          /\ host' = [host EXCEPT
                         !.views[i] = ViewOnMessage([host.views[i] EXCEPT !.toView = Tail(@)],
                                                    Head(host.views[i].toView))]
    /\ UNCHANGED <<ui, request, response>>

\* The harness's 100 ms timer: post the tool-result, start the 300 ms timer.
HarnessSendTimer ==
    /\ host.kind = "harness"
    /\ host.timers > 0
    /\ host' = [host EXCEPT !.timers = @ - 1, !.readyTimers = @ + 1,
                            !.views[1].toView = Append(@, "tool-result"),
                            !.views[1].sent = @ + 1]
    /\ UNCHANGED <<ui, request, response>>

\* The harness's 300 ms timer: window.__SCREENSHOT_READY__ = true.
HarnessReadyTimer ==
    /\ host.kind = "harness"
    /\ host.readyTimers > 0
    /\ host' = [host EXCEPT !.readyTimers = @ - 1, !.screenshotReady = TRUE]
    /\ UNCHANGED <<ui, request, response>>

InitHost ==
    /\ ui = InitView("loan")
    /\ request = NoRequest
    /\ response = NoResponse
    /\ host \in {InitSimulator, InitHarness}

NextHost ==
    \/ SimHandlePrompt
    \/ SimToolReturned
    \/ SimAddFrame
    \/ SimFrameLoad
    \/ SimToggleTheme
    \/ SimSwitchApp
    \/ ViewSendInitialize
    \/ HostReceive
    \/ ViewReceive
    \/ HarnessSendTimer
    \/ HarnessReadyTimer

SpecHost == InitHost /\ [][NextHost]_vars

\* The same steps with the progress the browser gives handlePrompt: a fetch
\* settles, typeText's timers run out, and an iframe that is in the document
\* fires its load event.
SpecHostFair ==
    /\ InitHost
    /\ [][NextHost]_vars
    /\ WF_vars(SimToolReturned)
    /\ WF_vars(SimAddFrame)
    /\ WF_vars(SimFrameLoad)

\* ------------------------------------------------------------ SpecLoan
\* The loan arithmetic called directly: request holds the function and its
\* arguments from the start, response.body the value once it has returned.
LoanRequest(fn, args) == [via |-> "loan", app |-> "loan", tool |-> fn, args |-> args]
LoanReturn(fn, value) ==
    /\ request.tool = fn
    /\ response = NoResponse
    /\ response' = [NoResponse EXCEPT !.via = "loan", !.body = <<value>>]
    /\ UNCHANGED <<ui, request, host>>

\* Inputs the schema and the handlers accept: money in cents, rates and years in
\* tenths.  $114 at a 1 % tax rate is a price whose monthly tax lies within an ulp
\* of a half cent.
LoanPrincipals == {11400, 1200000}
LoanInputs ==
    [principal : LoanPrincipals, annual_rate : {0, 45}, term_years : {10, 50},
     down_payment : {NoOpt, <<2000>>}, property_tax_rate : {NoOpt, <<10>>},
     annual_insurance : {NoOpt, <<120000>>}]
\* What the View is given to start from, and where its sliders can be moved.
LoanBases == {i \in LoanInputs : i.annual_rate = 45 /\ i.term_years = 50}
RateSlider == {0, 45}
TermSlider == {50}
DownSlider == {0, 20}
\* Terms of one year, of a year and a tenth and of two years.  A fractional
\* number of months is taken at rate 0 only, where Math.pow is not called.
AmortizationInputs ==
    {i \in [principal : {132000, 1200000}, annual_rate : {0, 60},
            term_years : {10, 11, 20}, down_payment : {NoOpt, <<12000>>},
            property_tax_rate : {NoOpt}, annual_insurance : {NoOpt}] :
        i.term_years = 11 => i.annual_rate = 0}
\* Scenarios to compare: two that are equal in every figure, one with a lower
\* payment over a longer term, one with a higher rate.
CompareScenarios ==
    {ScenarioA, [ScenarioA EXCEPT !.term_years = 50],
     [ScenarioA EXCEPT !.annual_rate = 45, !.term_years = 20]}
CompareInputs ==
    UNION {[1..n -> CompareScenarios] : n \in 2..3}
    \cup {<<ScenarioA, [ScenarioA EXCEPT !.term_years = 50], ScenarioA,
            [ScenarioA EXCEPT !.term_years = 50]>>}

LoanRequests ==
    {LoanRequest("computeLoan", input) : input \in LoanInputs}
    \cup {LoanRequest("recalcFromSliders",
                      [base |-> b, rate |-> rate, termYears |-> term, downPct |-> down]) :
            b \in LoanBases, rate \in RateSlider, term \in TermSlider, down \in DownSlider}
    \cup {LoanRequest("handleAmortizationSchedule", input) : input \in AmortizationInputs}
    \cup {LoanRequest("handleCompareLoans", [scenarios |-> s]) : s \in CompareInputs}

LoanCompute == LoanReturn("computeLoan", computeLoan(request.args))

LoanRecalc ==
    LoanReturn("recalcFromSliders",
               recalcFromSliders(computeLoan(request.args.base), request.args.rate,
                                 request.args.termYears, request.args.downPct))

LoanAmortize ==
    LoanReturn("handleAmortizationSchedule", handleAmortizationSchedule(request.args))

LoanCompare == LoanReturn("handleCompareLoans", handleCompareLoans(request.args))

InitLoan ==
    /\ ui = InitView("loan")
    /\ request \in LoanRequests
    /\ response = NoResponse
    /\ host = NoMessage

NextLoan ==
    \/ LoanCompute
    \/ LoanRecalc
    \/ LoanAmortize
    \/ LoanCompare

SpecLoan == InitLoan /\ [][NextLoan]_vars

\* ----------------------------------------------------------- SpecRegex
\* The regex engine and the explainer as functions: a state holds one call and,
\* after the step, what it returns.
RegexRequest(fn, args) == [via |-> "regex", app |-> "regex", tool |-> fn, args |-> args]
RegexReturn(fn, value) ==
    /\ request.tool = fn
    /\ response = NoResponse
    /\ response' = [NoResponse EXCEPT !.via = "regex", !.body = <<value>>]
    /\ UNCHANGED <<ui, request, host>>

\* Test strings with more places to match than the loop records.
LongA == [i \in 1..(MatchCap + 1) |-> "a"]
LongB == [i \in 1..MatchCap |-> "b"]
TestStrings == {<<>>, <<"a">>, <<"b", "a">>, <<"a", "a", "b">>, LongA, LongB}
RegexFlags == {<<>>, <<"g">>, <<"y">>, <<"i">>, <<"z">>, <<"g", "y">>}
MaxCases == 2
ValidationCases ==
    UNION {[1..n -> [input : {<<"a">>, <<"b">>, <<"b", "a">>}, shouldMatch : BOOLEAN]] :
           n \in 0..MaxCases}

\* Patterns for the tokenizer: every text up to a length over the characters of
\* character classes, of groups, of brace quantifiers and of the one-character
\* tokens.
SeqsUpTo(S, n) == UNION {[1..k -> S] : k \in 0..n}
MaxClassLen == 4
MaxGroupLen == 5
MaxBraceLen == 5
MaxOtherLen == 2
TokenPatterns ==
    SeqsUpTo({"[", "]", "^", "\\", "a"}, MaxClassLen)
    \cup SeqsUpTo({"(", "?", "<", ">", "a"}, MaxGroupLen)
    \cup SeqsUpTo({"{", "}", "1", ",", "?"}, MaxBraceLen)
    \cup SeqsUpTo({"^", "$", "|", "*", "+", ".", ")", "\\", "d", "1", ":", "=", "!"}, MaxOtherLen)
    \cup {<<"(", "?", ":", "a", ")">>, <<"(", "?", "=", "a", ")">>, <<"(", "?", "!", "a", ")">>,
          <<"(", "?", "<", "=", "a", ")">>, <<"(", "?", "<", "!", "a", ")">>,
          <<"(", "?", "<", "a", ">", "[", "]", "a", "]", ")">>}

RegexRequests ==
    {RegexRequest(fn, a) : fn \in {"testRegex", "runRegexClientSide"},
                           a \in [pattern : Patterns, flags : RegexFlags,
                                   testString : TestStrings]}
    \cup {RegexRequest("validateRegex", a) :
             a \in [pattern : Patterns, flags : RegexFlags, cases : ValidationCases]}
    \cup {RegexRequest("tokenize", [pattern |-> p]) : p \in TokenPatterns}

RegexTest ==
    RegexReturn("testRegex",
                testRegex(request.args.pattern, request.args.flags, request.args.testString))
RegexRun ==
    RegexReturn("runRegexClientSide",
                runRegexClientSide(request.args.pattern, request.args.flags,
                                   request.args.testString))
RegexValidate ==
    RegexReturn("validateRegex",
                validateRegex(request.args.pattern, request.args.flags, request.args.cases))
RegexTokenize == RegexReturn("tokenize", tokenize(request.args.pattern))

InitRegex ==
    /\ ui = InitView("regex")
    /\ request \in RegexRequests
    /\ response = NoResponse
    /\ host = NoMessage

NextRegex ==
    \/ RegexTest
    \/ RegexRun
    \/ RegexValidate
    \/ RegexTokenize

SpecRegex == InitRegex /\ [][NextRegex]_vars

\* ----------------------------------------------------------- SpecSliders
\* The calculate mode of the loan View under the requests calculate_loan
\* accepts: a price of $12,000 at 6.0 % or 20.0 %, over 7, 10 or 15 years, with
\* $2,400 (20 %) or $7,200 (60 %) down.  The sliders hold rates up to 15 %,
\* terms of 5 to 40 years in steps of 5 and down payments up to 50 %.
SliderInputs ==
    [principal : {1200000}, annual_rate : {60, 200}, term_years : {70, 100, 150},
     down_payment : {<<240000>>, <<720000>>}, property_tax_rate : {NoOpt},
     annual_insurance : {NoOpt}]

\* The tool-result of calculate_loan reaches the View that has just connected.
SliderDeliver ==
    /\ ui.conn = "ready"
    /\ ui.lastEvent.op = "connected"
    /\ \E input \in SliderInputs :
          ui' = OnToolResult(ui, <<TextBlock(PlainText(<<"b">>)),
                                   TextBlock(CalculateEnvelope(input))>>)
    /\ UNCHANGED <<request, response, host>>

InitSliders ==
    /\ ui = InitView("loan")
    /\ request = NoRequest
    /\ response = NoResponse
    /\ host = NoMessage

NextSliders ==
    \/ ViewConnect
    \/ SliderDeliver
    \/ LoanSlide

SpecSliders == InitSliders /\ [][NextSliders]_vars

\* ------------------------------------------------------- appdiscovery tools
\* The catalog file as getCatalog() has read it, and what the server's file
\* system and environment are to the query logger: process.env.LOG_PATH ("" when
\* unset), whether the logs directory exists, whether mkdirSync and
\* appendFileSync throw, and the lines of the log file.
Catalog == <<AppPen, AppPep, AppNee>>
HealthyDisk ==
    [logPath |-> "", dirExists |-> TRUE, mkdirFails |-> FALSE, appendFails |-> FALSE,
     file |-> <<>>]
Disks ==
    [logPath : {"", "custom.jsonl"}, dirExists : BOOLEAN, mkdirFails : BOOLEAN,
     appendFails : BOOLEAN, file : {<<>>}]

\* The platform, id text and category text of a catalog record.
PlatformOf(app) ==
    CASE app.id = "pen" -> "ios" [] app.id = "pep" -> "both" [] OTHER -> "android"
IdText(app) ==
    CASE app.id = "pen" -> <<"p", "e", "n">>
      [] app.id = "pep" -> <<"p", "e", "p">>
      [] OTHER -> <<"n", "e", "e">>
CategoryText(category) ==
    CASE category = "art" -> <<"a", "r", "t">>
      [] category = "ART" -> <<"A", "R", "T">>
      [] category = "music" -> <<"m", "u", "s", "i", "c">>
      [] OTHER -> <<>>
\* category.toLowerCase() on the category names of the requests
CategoryLower(category) == IF category = "ART" THEN "art" ELSE category

RECURSIVE SplitFrom(_, _, _, _)
\* str.split(/\s+/): a run of spaces ends a word, and a leading or trailing run
\* leaves an empty word.
SplitFrom(str, i, word, words) ==
    IF i > Len(str) THEN Append(words, word)
    ELSE IF str[i] = " "
         THEN IF i > 1 /\ str[i - 1] = " " THEN SplitFrom(str, i + 1, word, words)
              ELSE SplitFrom(str, i + 1, <<>>, Append(words, word))
    ELSE SplitFrom(str, i + 1, Append(word, str[i]), words)
SplitWhitespace(str) == SplitFrom(str, 1, <<>>, <<>>)

RECURSIVE JoinSpace(_)
\* parts.join(" ")
JoinSpace(parts) ==
    IF parts = <<>> THEN <<>>
    ELSE IF Len(parts) = 1 THEN parts[1]
    ELSE parts[1] \o <<" ">> \o JoinSpace(Tail(parts))

\* keywordScore, in tenths as the ratings are.
keywordScore(app, keywords) ==
    LET name == toLowerCase(app.name)
        desc == toLowerCase(app.shortDescription)
        features == toLowerCase(JoinSpace(app.features))
        Points(kw) == (IF includes(name, kw) THEN 100 ELSE 0)
                      + (IF includes(desc, kw) THEN 50 ELSE 0)
                      + (IF includes(features, kw) THEN 30 ELSE 0)
        Sum[k \in 0..Len(keywords)] ==
            IF k = 0 THEN 0 ELSE Sum[k - 1] + Points(keywords[k])
    IN  Sum[Len(keywords)] + app.rating

\* searchApps: the filters in the order of the code, then the sort.
searchApps(params, apps) ==
    LET InCategory(app) == CategoryLower(app.category) = CategoryLower(params.category)
        OnPlatform(app) == PlatformOf(app) = params.platform \/ PlatformOf(app) = "both"
        Affordable(app) == app.price <= params.max_price[1]
        Rated(app) == app.rating >= params.min_rating[1]
        byCategory == IF params.category # "" THEN Filter(InCategory, apps) ELSE apps
        byPlatform == IF params.platform # "" /\ params.platform # "both"
                      THEN Filter(OnPlatform, byCategory) ELSE byCategory
        byPrice == IF params.max_price # <<>> THEN Filter(Affordable, byPlatform)
                   ELSE byPlatform
        byRating == IF params.min_rating # <<>> THEN Filter(Rated, byPrice) ELSE byPrice
        keywords == SplitWhitespace(toLowerCase(params.keywords))
        searchText(app) ==
            toLowerCase(JoinSpace(<<app.name, app.shortDescription,
                                    CategoryText(app.category)>> \o app.features))
        Hit(app) == \E k \in 1..Len(keywords) : includes(searchText(app), keywords[k])
        ByScore(a, b) == keywordScore(b, keywords) - keywordScore(a, keywords)
    IN  IF params.keywords # <<>> THEN SortBy(ByScore, Filter(Hit, byRating))
        ELSE SortBy(ByRating, byRating)

\* getAppByName: the first record whose name or id is the name, letter case
\* aside; <<>> for undefined.
getAppByName(name, apps) ==
    LET lower == toLowerCase(name)
        Named(app) == toLowerCase(app.name) = lower \/ toLowerCase(IdText(app)) = lower
        found == Filter(Named, apps)
    IN  IF found = <<>> THEN <<>> ELSE <<found[1]>>

\* getAlternatives
getAlternatives(appName, apps) ==
    LET app == getAppByName(appName, apps)
        Other(other) == other.id # app[1].id /\ other.category = app[1].category
    IN  IF app = <<>> THEN <<>> ELSE SortBy(ByRating, Filter(Other, apps))

AppId(app) == app.id
AppName(app) == app.name

\* getLogPath: LOG_PATH when set; otherwise the logs directory, made first when
\* it is not there, which is where mkdirSync can throw.
getLogPath(disk) ==
    IF disk.logPath # ""
    THEN [threw |-> FALSE, message |-> "", path |-> disk.logPath, disk |-> disk]
    ELSE IF ~disk.dirExists
         THEN IF disk.mkdirFails
              THEN [threw |-> TRUE, message |-> "mkdir", path |-> "", disk |-> disk]
              ELSE [threw |-> FALSE, message |-> "", path |-> "logs/queries.jsonl",
                    disk |-> [disk EXCEPT !.dirExists = TRUE]]
    ELSE [threw |-> FALSE, message |-> "", path |-> "logs/queries.jsonl", disk |-> disk]

\* appendFileSync(path, line)
appendFileSync(disk, path, line) ==
    IF disk.appendFails THEN [threw |-> TRUE, message |-> "append", disk |-> disk]
    ELSE [threw |-> FALSE, message |-> "",
          disk |-> [disk EXCEPT !.file = Append(@, [path |-> path, line |-> line])]]

\* The try block of logQuery: getLogPath() is evaluated as an argument of the
\* appendFileSync call, inside the block.
TryAppend(disk, entry) ==
    LET target == getLogPath(disk)
    IN  IF target.threw THEN [threw |-> TRUE, message |-> target.message, disk |-> disk]
        ELSE appendFileSync(target.disk, target.path, entry)

\* logQuery without its catch clause.
logQueryUncaught(disk, tool, params, resultsCount, appsReturned) ==
    LET entry == [tool |-> tool, params |-> params, resultsCount |-> resultsCount,
                  appsReturned |-> appsReturned]
        tried == TryAppend(disk, entry)
    IN  [threw |-> tried.threw, message |-> tried.message, disk |-> tried.disk,
         stderr |-> <<>>]

\* logQuery: the entry, the append in a try block, console.error in the catch.
logQuery(disk, tool, params, resultsCount, appsReturned) ==
    LET entry == [tool |-> tool, params |-> params, resultsCount |-> resultsCount,
                  appsReturned |-> appsReturned]
        tried == TryAppend(disk, entry)
    IN  [threw |-> FALSE, message |-> "", disk |-> tried.disk,
         stderr |-> IF tried.threw THEN <<"Failed to write query log:", tried.message>>
                    ELSE <<>>]

\* What a handler call comes to once logQuery has run: an exception logQuery
\* lets out rejects the handler's promise, otherwise the handler goes on to its
\* return statement.
AfterLog(logged, result) ==
    [result |-> IF logged.threw THEN Throw(logged.message) ELSE result,
     disk |-> logged.disk, stderr |-> logged.stderr]
Unlogged(disk, result) == [result |-> result, disk |-> disk, stderr |-> <<>>]

PlatformText(platform) ==
    IF platform = "both" THEN "iOS & Android" ELSE IF platform = "ios" THEN "iOS" ELSE "Android"
PriceText(price) == IF price = 0 THEN <<"Free">> ELSE <<"$", price>>
\* formatAppSummary: the pieces of the three lines.
formatAppSummary(app) ==
    [name |-> app.name, platform |-> PlatformText(PlatformOf(app)),
     price |-> PriceText(app.price), rating |-> app.rating,
     shortDescription |-> app.shortDescription,
     features |-> SubSeq(app.features, 1, IF Len(app.features) < 5 THEN Len(app.features) ELSE 5)]

\* handleSearchApps
handleSearchApps(params, apps, disk) ==
    LET results == searchApps(params, apps)
    IN  AfterLog(logQuery(disk, "search_apps", params, Len(results), MapSeq(AppId, results)),
                 IF Len(results) = 0
                 THEN Return(<<"No apps found matching your criteria. Try broader search terms or fewer filters.">>,
                             Json(AppMarker, "search", [results |-> <<>>]))
                 ELSE Return(<<"Found", Len(results)>> \o MapSeq(formatAppSummary, results),
                             Json(AppMarker, "search", [results |-> results])))

\* handleGetAppDetails
handleGetAppDetails(params, apps, disk) ==
    LET app == getAppByName(params.app_name, apps)
    IN  AfterLog(logQuery(disk, "get_app_details", params, IF app # <<>> THEN 1 ELSE 0,
                          MapSeq(AppId, app)),
                 IF app = <<>>
                 THEN Return(<<"No app found with the name", params.app_name>>,
                             Json(AppMarker, "detail", [app |-> <<>>]))
                 ELSE Return(<<"details", formatAppSummary(app[1])>>,
                             Json(AppMarker, "detail", [app |-> app])))

\* formatComparison: the names, then the highest rated and the most affordable.
formatComparison(apps) ==
    <<"Comparing">> \o MapSeq(AppName, apps)
    \o <<"Highest rated:", SortBy(ByRating, apps)[1].name,
         "Most affordable:", SortBy(ByPrice, apps)[1].name>>

\* handleCompareApps
handleCompareApps(params, apps, disk) ==
    LET Known(name) == getAppByName(name, apps) # <<>>
        Unknown(name) == getAppByName(name, apps) = <<>>
        FoundApp(name) == getAppByName(name, apps)[1]
        found == MapSeq(FoundApp, Filter(Known, params.apps))
        notFound == Filter(Unknown, params.apps)
        none == Json(AppMarker, "compare", [apps |-> <<>>])
    IN  IF Len(params.apps) < 2
        THEN Unlogged(disk, Return(<<"Please provide at least 2 app names to compare.">>, none))
        ELSE IF Len(params.apps) > 4
        THEN Unlogged(disk, Return(<<"Please provide at most 4 apps to compare at a time.">>, none))
        ELSE AfterLog(logQuery(disk, "compare_apps", params, Len(found), MapSeq(AppId, found)),
                      IF Len(found) < 2
                      THEN Return((IF Len(notFound) > 0 THEN <<"Could not find:", notFound>>
                                   ELSE <<>>) \o <<"Need at least 2 apps to compare.">>, none)
                      ELSE Return(formatComparison(found)
                                  \o (IF Len(notFound) > 0
                                      THEN <<"Note: Could not find these apps in the catalog:",
                                             notFound>>
                                      ELSE <<>>),
                                  Json(AppMarker, "compare", [apps |-> found])))

\* handleGetAlternatives
handleGetAlternatives(params, apps, disk) ==
    LET sourceApp == getAppByName(params.app_name, apps)
        alternatives == getAlternatives(params.app_name, apps)
    IN  IF sourceApp = <<>>
        THEN AfterLog(logQuery(disk, "get_alternatives", params, 0, <<>>),
                      Return(<<"No app found with the name", params.app_name>>,
                             Json(AppMarker, "alternatives",
                                  [sourceApp |-> <<>>, alternatives |-> <<>>])))
        ELSE AfterLog(logQuery(disk, "get_alternatives", params, Len(alternatives),
                               MapSeq(AppId, alternatives)),
                      IF Len(alternatives) = 0
                      THEN Return(<<"No alternatives found for", sourceApp[1].name>>,
                                  Json(AppMarker, "alternatives",
                                       [sourceApp |-> sourceApp, alternatives |-> <<>>]))
                      ELSE Return(<<"Alternatives to", sourceApp[1].name>>
                                  \o MapSeq(formatAppSummary, alternatives),
                                  Json(AppMarker, "alternatives",
                                       [sourceApp |-> sourceApp,
                                        alternatives |-> alternatives])))

\* ------------------------------------------------------- SpecDiscovery
\* One appdiscovery tool call: Init draws the call, the catalog and the state of
\* the disk, and one action for each handler returns what the caller receives.
DiscoveryRequest(fn, params, apps, disk) ==
    [via |-> "appdiscovery", app |-> "appdiscovery", tool |-> fn,
     args |-> [params |-> params, apps |-> apps, disk |-> disk]]
DiscoveryReturn(fn, outcome) ==
    /\ request.tool = fn
    /\ response = NoResponse
    /\ response' = [NoResponse EXCEPT !.via = "appdiscovery", !.body = <<outcome>>]
    /\ UNCHANGED <<ui, request, host>>

Catalogs == {<<>>, Catalog}
SearchParams ==
    [keywords : {<<>>, <<"p", "e", "n">>, <<" ", "E", "N">>, <<"x">>, <<"e", "n">>,
                 <<"e", "n", " ", " ", "N", "e", "e">>},
     category : {"", "ART"}, platform : {"", "ios"},
     max_price : {<<>>, <<99>>}, min_rating : {<<>>}]
    \cup [keywords : {<<>>}, category : {"", "news"}, platform : {"both", "android"},
          max_price : {<<>>}, min_rating : {<<46>>}]
AppNames == {<<"P", "e", "n">>, <<"p", "e", "p">>, <<"N", "E", "E">>, <<"x">>}
NameParams == [app_name : AppNames]
CompareParams ==
    [apps : {<<>>, << <<"P", "e", "n">> >>,
             << <<"P", "e", "n">>, <<"n", "e", "e">> >>,
             << <<"P", "e", "p">>, <<"x">>, <<"P", "e", "n">> >>,
             << <<"P", "e", "n">>, <<"x">> >>,
             << <<"x">>, <<"x">>, <<"x">>, <<"x">>, <<"x">> >>}]
DiscoveryRequests ==
    {DiscoveryRequest("handleSearchApps", p, c, d) :
        p \in SearchParams, c \in Catalogs, d \in Disks}
    \cup {DiscoveryRequest(fn, p, c, d) :
             fn \in {"handleGetAppDetails", "handleGetAlternatives"},
             p \in NameParams, c \in Catalogs, d \in Disks}
    \cup {DiscoveryRequest("handleCompareApps", p, c, d) :
             p \in CompareParams, c \in Catalogs, d \in Disks}

\* The handler the request names, on the request's parameters and catalog and
\* the disk given.
DiscoveryCall(disk) ==
    CASE request.tool = "handleSearchApps" ->
           handleSearchApps(request.args.params, request.args.apps, disk)
      [] request.tool = "handleGetAppDetails" ->
           handleGetAppDetails(request.args.params, request.args.apps, disk)
      [] request.tool = "handleCompareApps" ->
           handleCompareApps(request.args.params, request.args.apps, disk)
      [] OTHER -> handleGetAlternatives(request.args.params, request.args.apps, disk)

DiscoverySearch ==
    DiscoveryReturn("handleSearchApps",
                    handleSearchApps(request.args.params, request.args.apps, request.args.disk))
DiscoveryDetails ==
    DiscoveryReturn("handleGetAppDetails",
                    handleGetAppDetails(request.args.params, request.args.apps,
                                        request.args.disk))
DiscoveryCompare ==
    DiscoveryReturn("handleCompareApps",
                    handleCompareApps(request.args.params, request.args.apps,
                                      request.args.disk))
DiscoveryAlternatives ==
    DiscoveryReturn("handleGetAlternatives",
                    handleGetAlternatives(request.args.params, request.args.apps,
                                          request.args.disk))

InitDiscovery ==
    /\ ui = InitView("appdiscovery")
    /\ request \in DiscoveryRequests
    /\ response = NoResponse
    /\ host = NoMessage

NextDiscovery ==
    \/ DiscoverySearch
    \/ DiscoveryDetails
    \/ DiscoveryCompare
    \/ DiscoveryAlternatives

SpecDiscovery == InitDiscovery /\ [][NextDiscovery]_vars

\* ================================================================ claims
\* A content block that is text, parses as a JSON object and carries the marker
\* key of View v.
Marked(v, b) ==
    /\ b.type = "text"
    /\ b.hasText
    /\ b.text.kind = "json"
    /\ b.text.marker = MarkerOf(v)

Cached(s) ==
    <<s.currentViewType, s.currentCalcData, s.currentAmortData, s.currentCompareData,
      s.currentTestData, s.currentGenerateData, s.currentCheatsheetData,
      s.allApps, s.sourceApp>>

\* What a browser shows for one escaped character.
Unescape(e) ==
    CASE e = "&amp;" -> "&"
      [] e = "&lt;" -> "<"
      [] e = "&gt;" -> ">"
      [] e = "&quot;" -> "\""
      [] OTHER -> e

\* html is an escaped form of chars: no raw <, > or & is left in it, and it
\* displays as chars.
Escaped(html, chars) ==
    /\ Len(html) = Len(chars)
    /\ \A k \in 1..Len(html) :
          html[k] \notin {"<", ">", "&"} /\ Unescape(html[k]) = chars[k]

C3_OneToolResultAfterInitialized ==
    \A i \in 1..Len(host.views) :
        /\ host.views[i].sent <= 1
        /\ host.views[i].received <= host.views[i].sent
        /\ host.views[i].sent = 1 => host.views[i].initialized
        /\ host.views[i].view \in {"start", "requested"} =>
              /\ host.views[i].sent = 0
              /\ ~host.views[i].initialized
              /\ \A k \in 1..Len(host.views[i].toView) :
                    host.views[i].toView[k] # "tool-result"
        /\ host.views[i].initialized =>
              host.views[i].sent + (IF host.kind = "harness" THEN host.timers ELSE 0) = 1

\* C3 witness: the simulator has two View instances, each was sent one
\* tool-result after its handshake, and the first has received it.
C3_Witness ==
    /\ host.kind = "simulator"
    /\ Len(host.views) = 2
    /\ host.views[1].sent = 1
    /\ host.views[1].received = 1
    /\ host.views[2].view = "ready"
    /\ host.views[2].sent = 1

\* C4: after a tool-cancelled message what the user sees is the 'Tool call was
\* cancelled' placeholder, whatever was displayed before, the appdiscovery detail
\* panel included.
C4_CancelledReplacesWhatIsSeen ==
    ui.lastEvent.op = "toolcancelled" => Visible(ui).el = CancelledEl

\* C5: when an envelope of the edited mode arrives (calculate in the loan View,
\* test in the regex View), the cached data is the envelope's data and every value
\* on screen is the envelope's; nothing of an earlier local recomputation is left.
C5_EnvelopeReplacesLocalEdits ==
    (ui.lastEvent.op = "toolresult" /\ Len(ui.lastEvent.dispatched) = 1) =>
        /\ (ui.app = "loan" /\ ui.lastEvent.dispatched[1].viewType = "calculate") =>
              /\ ui.currentCalcData = <<ui.lastEvent.dispatched[1].data>>
              /\ ui.contentEl.kind = "calculate"
              /\ ui.contentEl.shown = CalcDisplay(ui.lastEvent.dispatched[1].data)
              /\ ui.contentEl.shown.breakdown[4] = ui.lastEvent.dispatched[1].data.monthlyTotal
              /\ ui.contentEl.valRate = ui.lastEvent.dispatched[1].data.annualRate
              /\ ui.contentEl.valTerm = ui.lastEvent.dispatched[1].data.termYears
              /\ ui.contentEl.valDown = DownPct(ui.lastEvent.dispatched[1].data)
        /\ (ui.app = "regex" /\ ui.lastEvent.dispatched[1].viewType = "test") =>
              /\ ui.currentTestData = <<ui.lastEvent.dispatched[1].data>>
              /\ ui.contentEl.kind = "test"
              /\ ui.contentEl.patternInput = ui.lastEvent.dispatched[1].data.pattern
              /\ ui.contentEl.flagsInput = ui.lastEvent.dispatched[1].data.flags
              /\ ui.contentEl.testTextarea = ui.lastEvent.dispatched[1].data.testString
              /\ ui.contentEl.errorMsg = ui.lastEvent.dispatched[1].data.error
              /\ ui.contentEl.highlightError = NoError
              /\ ui.lastEvent.dispatched[1].data.error = NoError =>
                    /\ ui.contentEl.matchCount = ui.lastEvent.dispatched[1].data.matchCount
                    /\ ui.contentEl.highlight.spans = ui.lastEvent.dispatched[1].data.matches
                    /\ ui.contentEl.table = ui.lastEvent.dispatched[1].data.matches

\* C5 witness: the loan View took a calculate envelope right after a slider edit.
C5_Witness ==
    /\ ui.app = "loan"
    /\ ui.lastEvent.op = "toolresult"
    /\ ui.lastEvent.afterEdit
    /\ Len(ui.lastEvent.dispatched) = 1
    /\ ui.lastEvent.dispatched[1].viewType = "calculate"
    /\ ui.currentCalcData = <<ui.lastEvent.dispatched[1].data>>

\* C6: after a search envelope the cards on screen are exactly the apps of
\* data.results, none hidden by keywords, typed text, a category or a sort choice
\* from before.
C6_SearchShowsAllResults ==
    (/\ ui.app = "appdiscovery"
     /\ ui.lastEvent.op = "toolresult"
     /\ Len(ui.lastEvent.dispatched) = 1
     /\ ui.lastEvent.dispatched[1].viewType = "search")
    => IF ui.lastEvent.dispatched[1].data.results = <<>>
       THEN ui.contentEl = StatusEl("No apps found")
       ELSE /\ ui.contentEl.kind = "cards"
            /\ Len(ui.contentEl.cards) = Len(ui.lastEvent.dispatched[1].data.results)
            /\ \A i \in 1..Len(ui.lastEvent.dispatched[1].data.results) :
                  \E k \in 1..Len(ui.contentEl.cards) :
                      ui.contentEl.cards[k] = ui.lastEvent.dispatched[1].data.results[i]

\* The viewType a regex tool normally answers with.
NormalViewType(tool) ==
    CASE tool = "test_regex" -> "test"
      [] tool = "explain_regex" -> "explain"
      [] tool = "generate_regex" -> "generate"
      [] OTHER -> "cheatsheet"

\* C7: test_regex, generate_regex and explain_regex report a pattern with invalid
\* syntax inside the tool's normal viewType, as an error field of the data next to
\* empty results.
C7_InvalidPatternInNormalViewType ==
    (/\ request.via = "mcp"
     /\ request.app = "regex"
     /\ request.tool \in {"test_regex", "generate_regex", "explain_regex"}
     /\ request.args.pattern = "(")
    => /\ response.structuredContent # <<>>
       /\ response.structuredContent[1].viewType = NormalViewType(request.tool)
       /\ response.structuredContent[1].data.error # NoError
       /\ request.tool = "test_regex" => response.structuredContent[1].data.matches = <<>>
       /\ request.tool = "generate_regex" =>
              response.structuredContent[1].data.results = <<>>

\* C8: an envelope of any viewType the regex handlers or their error wrapper emit
\* makes the regex View show a rendering of that envelope; an error envelope shows
\* an error message and not the previous content.
C8_EveryViewTypeRendered ==
    (/\ ui.app = "regex"
     /\ ui.lastEvent.op = "toolresult"
     /\ Len(ui.lastEvent.dispatched) = 1)
    => ui.contentEl.kind = ui.lastEvent.dispatched[1].viewType

\* The loan scenarios of a request, and the inputs the loan tools must reject.
ScenariosOf(req) ==
    IF req.tool = "compare_loans" THEN req.args.scenarios ELSE <<req.args>>
BadLoanInput(s) ==
    \/ s.principal <= 0
    \/ s.annual_rate < 0
    \/ s.term_years <= 0
    \/ (s.down_payment # <<>> /\ s.down_payment[1] >= s.principal)
Rejected(resp) ==
    IF resp.via = "rest" THEN resp.status >= 400
    ELSE \/ resp.error # ""
         \/ resp.structuredContent # <<>> /\ resp.structuredContent[1].viewType = "error"

\* C9: calculate_loan, amortization_schedule and compare_loans (for each of its
\* scenarios) reject a principal <= 0, a rate < 0, a term <= 0 and a down payment
\* >= the principal.
C9_LoanToolsRejectBadInput ==
    (/\ request.via # "none"
     /\ request.app = "loan"
     /\ \E i \in 1..Len(ScenariosOf(request)) : BadLoanInput(ScenariosOf(request)[i]))
    => Rejected(response)

\* The reply carries the text 'Error: <message>' and an error envelope with the
\* message.
ErrorReported(resp, message) ==
    IF resp.via = "rest"
    THEN /\ resp.body # <<>>
         /\ resp.body[1].text = <<"Error: ", message>>
         /\ resp.body[1].json.viewType = "error"
    ELSE /\ resp.structuredContent # <<>>
         /\ resp.content[1].text = PlainText(<<"Error: ", message>>)
         /\ resp.structuredContent[1].viewType = "error"
         /\ resp.structuredContent[1].data.error = message
HandlerRan(resp) == IF resp.via = "rest" THEN resp.status # 404 ELSE resp.error = ""
ThrownReported(resp, result) == result.threw => ErrorReported(resp, result.message)

\* C10: when a tool handler throws, the caller receives 'Error: <message>' and an
\* error envelope, over MCP and over the REST endpoint alike.
C10_ThrowBecomesErrorEnvelope ==
    (request.via # "none" /\ HandlerRan(response))
    => ThrownReported(response, Handler(request.app, request.tool, request.args))

\* The six figures the claim names.
SixFigures(r) ==
    <<r.monthlyPrincipalInterest, r.monthlyTax, r.monthlyInsurance, r.monthlyTotal,
      r.totalInterest, r.totalCost>>

\* The computeLoan input that stands for a slider position over a base result:
\* the base's principal, tax rate and insurance, the slider's rate and term, and
\* the down payment round(principal * downPct / 100) in whole dollars.
SliderInput(base, rate, termYears, downPct) ==
    [principal |-> base.principal, annual_rate |-> rate, term_years |-> termYears,
     down_payment |->
         <<100 * MathRound(DDiv(DMul(Dollars(base.principal), DFromInt(downPct)), D100))>>,
     property_tax_rate |-> <<base.propertyTaxRate>>,
     annual_insurance |-> <<base.annualInsurance>>]

\* C11: moving the sliders gives the six figures computeLoan gives for the same
\* principal, rate, term, down payment, tax rate and insurance.
C11_SlidersAgreeWithServer ==
    (request.tool = "recalcFromSliders" /\ response # NoResponse)
    => SixFigures(response.body[1])
       = SixFigures(computeLoan(SliderInput(computeLoan(request.args.base),
                                            request.args.rate, request.args.termYears,
                                            request.args.downPct)))

\* C12: for every pattern, flags and test string runRegexClientSide returns what
\* testRegex returns: the same matches in the same order, the same matchCount and
\* the same error.
C12_ClientScanIsServerScan ==
    (request.tool = "runRegexClientSide" /\ response # NoResponse)
    => response.body[1] = testRegex(request.args.pattern, request.args.flags,
                                    request.args.testString)
\* The View's copy has scanned a text whose every position matches the empty
\* string and has stopped at the cap.
C12_Witness ==
    /\ request.tool = "runRegexClientSide"
    /\ response # NoResponse
    /\ request.args.pattern = "a*"
    /\ request.args.testString = LongB
    /\ response.body[1].matchCount = MatchCap
    /\ \A k \in 1..MatchCap : response.body[1].matches[k].index = k - 1

\* The loop of testRegex over the request, as it has left.
ScanOfRequest ==
    ScanPasses(NewRegExp(request.args.pattern, EffectiveFlags(request.args.flags)),
               request.args.testString,
               [lastIndex |-> 0, matches |-> <<>>, safety |-> 0, done |-> FALSE],
               MatchCap + 1)
RECURSIVE CountPassed(_)
CountPassed(results) ==
    IF results = <<>> THEN 0
    ELSE (IF Head(results).passed THEN 1 ELSE 0) + CountPassed(Tail(results))
\* C14: in what validateRegex returns, passed is (didMatch = shouldMatch) for
\* every result and passCount is the number of results that passed, for a
\* pattern that compiles and for one that does not.
C14_ValidateCounts ==
    (request.tool = "validateRegex" /\ response # NoResponse)
    => /\ \A k \in 1..Len(response.body[1].results) :
             response.body[1].results[k].passed
             = (response.body[1].results[k].didMatch = response.body[1].results[k].shouldMatch)
       /\ response.body[1].passCount = CountPassed(response.body[1].results)
\* validateRegex has returned two results of which one passed, the other having
\* matched against its expectation.
C14_Witness ==
    /\ request.tool = "validateRegex"
    /\ response # NoResponse
    /\ response.body[1].error = NoError
    /\ Len(response.body[1].results) = 2
    /\ response.body[1].passCount = 1
    /\ \E k \in 1..2 : /\ response.body[1].results[k].didMatch
                        /\ ~response.body[1].results[k].passed
\* ... and it has returned for a pattern that does not compile.
C14_WitnessInvalid ==
    /\ request.tool = "validateRegex"
    /\ response # NoResponse
    /\ response.body[1].error # NoError
    /\ request.args.cases # <<>>

\* The texts of the tokens, in order.
TokenTexts(tokens) == [k \in 1..Len(tokens) |-> tokens[k].token]
\* C15: the token texts of tokenize, concatenated in order, are the pattern.
C15_TokensCoverPattern ==
    (request.tool = "tokenize" /\ response # NoResponse)
    => Flatten(TokenTexts(response.body[1])) = request.args.pattern
\* tokenize has returned for a named group followed by a class whose first
\* character is "]".
C15_Witness ==
    /\ request.tool = "tokenize"
    /\ response # NoResponse
    /\ request.args.pattern = <<"(", "?", "<", "a", ">", "[", "]", "a", "]", ")">>
    /\ Len(response.body[1]) = 3
\* ... for an unterminated class that ends in a backslash, for a brace that is
\* no quantifier and for "(?<" without ">".
C15_WitnessMalformed ==
    /\ request.tool = "tokenize"
    /\ response # NoResponse
    /\ request.args.pattern \in {<<"[", "a", "\\">>, <<"{", "1", ",", "?">>, <<"(", "?", "<", "a">>}

RECURSIVE FirstClose(_, _)
\* The index of the first unescaped "]" of p at or after index j, the last index
\* of p when there is none.
FirstClose(p, j) ==
    IF j >= Len(p) THEN Len(p) - 1
    ELSE IF Ch(p, j) = "]" THEN j
    ELSE IF Ch(p, j) = "\\" THEN FirstClose(p, j + 2)
    ELSE FirstClose(p, j + 1)
\* The index of p at which token k starts.
TokenStart(tokens, k) == Len(Flatten(TokenTexts(SubSeq(tokens, 1, k - 1))))
\* C16: a character-class token that starts at a "[" ends at the first unescaped
\* "]" after the bracket, or at the end of the pattern when there is none.
C16_ClassEndsAtFirstClose ==
    (request.tool = "tokenize" /\ response # NoResponse)
    => \A k \in 1..Len(response.body[1]) :
          (/\ response.body[1][k].category = "character-class"
           /\ response.body[1][k].token[1] = "[")
          => TokenStart(response.body[1], k) + Len(response.body[1][k].token) - 1
             = FirstClose(request.args.pattern, TokenStart(response.body[1], k) + 1)

\* best is a 0-based index of keys whose key no other key is less than, and the
\* keys before it are greater.
LowestArgMin(keys, best) ==
    /\ best \in 0..(Len(keys) - 1)
    /\ \A i \in 1..Len(keys) : /\ ~DLess(keys[i], keys[best + 1])
                                /\ i < best + 1 => DLess(keys[best + 1], keys[i])
MonthlyTotals(results) == [k \in 1..Len(results) |-> results[k].monthlyTotal]
TotalInterests(results) == [k \in 1..Len(results) |-> results[k].totalInterest]
TotalCosts(results) == [k \in 1..Len(results) |-> results[k].totalCost]
\* What handleCompareLoans has returned for the request.
Compared ==
    /\ request.tool = "handleCompareLoans"
    /\ response # NoResponse
    /\ ~response.body[1].threw
\* C17: bestMonthly, bestTotalInterest and bestTotalCost of compare_loans each
\* point to a scenario whose monthlyTotal, totalInterest or totalCost is the
\* least of all, and to the first of them when several share it.
C17_BestIsLowestArgMin ==
    Compared
    => /\ LowestArgMin(MonthlyTotals(response.body[1].json.data.scenarios),
                       response.body[1].json.data.bestMonthly)
       /\ LowestArgMin(TotalInterests(response.body[1].json.data.scenarios),
                       response.body[1].json.data.bestTotalInterest)
       /\ LowestArgMin(TotalCosts(response.body[1].json.data.scenarios),
                       response.body[1].json.data.bestTotalCost)
\* Four scenarios were compared of which the second and the fourth share the
\* lowest payment and the first and the third the lowest interest.
C17_Witness ==
    /\ Compared
    /\ Len(request.args.scenarios) = 4
    /\ request.args.scenarios[1] = request.args.scenarios[3]
    /\ request.args.scenarios[2] = request.args.scenarios[4]
    /\ response.body[1].json.data.bestMonthly = 1
    /\ response.body[1].json.data.bestTotalInterest = 0

\* |x - y| <= 0.01 in doubles.
DAbs(x) == IF DNegative(x) THEN DNeg(x) ELSE x
Cent == JsonNumber(1, 100)
WithinCent(x, y) == ~DLess(Cent, DAbs(DSub(x, y)))

RECURSIVE SumPrincipal(_, _, _)
\* The sum of principalPortion over rows k.. of the schedule, added to acc.
SumPrincipal(rows, k, acc) ==
    IF k > Len(rows) \/ acc.s = 0 THEN acc
    ELSE SumPrincipal(rows, k + 1, DAdd(acc, rows[k].principalPortion))
\* What handleAmortizationSchedule has returned for the request.
Amortized ==
    /\ request.tool = "handleAmortizationSchedule"
    /\ response # NoResponse
    /\ ~response.body[1].threw
\* C18: in a returned schedule the row at index termMonths - 1 is there, its
\* remainingBalance is within 0.01 of zero, and the principal portions add up to
\* the loan amount within a cent and half a cent for each row.
C18_ScheduleRepaysLoan ==
    Amortized
    => /\ DFromInt(Len(response.body[1].json.data.schedule))
          = response.body[1].json.data.termMonths
       /\ Len(response.body[1].json.data.schedule) > 0
       /\ WithinCent(response.body[1].json.data.schedule[
                         Len(response.body[1].json.data.schedule)].remainingBalance, DZero)
       /\ ~DLess(DAdd(Cent, DMul(JsonNumber(5, 1000),
                                 DFromInt(Len(response.body[1].json.data.schedule)))),
                 DAbs(DSub(SumPrincipal(response.body[1].json.data.schedule, 1, DZero),
                           response.body[1].json.data.loanAmount)))

LogWriteFailed ==
    \/ (request.args.disk.logPath = "" /\ ~request.args.disk.dirExists
        /\ request.args.disk.mkdirFails)
    \/ request.args.disk.appendFails
\* C20: an appdiscovery tool call returns the ToolResult it returns when the
\* query log is written, and throws nothing, also when the logs directory cannot
\* be made or the append throws.
C20_LogFailureIgnored ==
    (request.via = "appdiscovery" /\ response # NoResponse)
    => /\ ~response.body[1].result.threw
       /\ response.body[1].result = DiscoveryCall(HealthyDisk).result
\* A search that found apps while the logs directory could not be made: the
\* failure went to stderr and nothing was written.
C20_Witness ==
    /\ request.tool = "handleSearchApps"
    /\ response # NoResponse
    /\ request.args.disk.logPath = ""
    /\ ~request.args.disk.dirExists
    /\ request.args.disk.mkdirFails
    /\ response.body[1].stderr # <<>>
    /\ response.body[1].disk.file = <<>>
    /\ Len(response.body[1].result.json.data.results) > 1
\* A comparison returned while appendFileSync threw.
C20_WitnessAppend ==
    /\ request.tool = "handleCompareApps"
    /\ response # NoResponse
    /\ request.args.disk.appendFails
    /\ LogWriteFailed
    /\ response.body[1].stderr # <<>>
    /\ Len(response.body[1].result.json.data.apps) > 1

\* The words of a keywords text: its maximal runs of characters other than
\* spaces, in lower case.
IsWord(w) == w # <<>>
KeywordsOf(text) == SelectSeq(SplitWhitespace(toLowerCase(text)), IsWord)
\* A word occurs in the searchable text of an app: its name, descriptions,
\* category or one of its features, letter case aside.
Mentions(app, w) ==
    \/ includes(toLowerCase(app.name), w)
    \/ includes(toLowerCase(app.shortDescription), w)
    \/ includes(toLowerCase(CategoryText(app.category)), w)
    \/ \E k \in 1..Len(app.features) : includes(toLowerCase(app.features[k]), w)
\* An app satisfies every filter the parameters supply (a platform of "both"
\* asks for no platform in particular).
SatisfiesFilters(app, params) ==
    /\ params.category # "" => CategoryLower(app.category) = CategoryLower(params.category)
    /\ params.platform \in {"ios", "android"}
       => PlatformOf(app) \in {params.platform, "both"}
    /\ params.max_price # <<>> => app.price <= params.max_price[1]
    /\ params.min_rating # <<>> => app.rating >= params.min_rating[1]
    /\ params.keywords # <<>>
       => \E k \in 1..Len(KeywordsOf(params.keywords)) :
              Mentions(app, KeywordsOf(params.keywords)[k])
\* The relevance score, in tenths: 10 for each keyword in the name, 5 in the
\* short description, 3 in the features, and the rating.
RelevanceOf(app, words) ==
    LET InFeatures(w) == \E k \in 1..Len(app.features) : includes(toLowerCase(app.features[k]), w)
    IN  100 * Cardinality({k \in 1..Len(words) : includes(toLowerCase(app.name), words[k])})
        + 50 * Cardinality({k \in 1..Len(words) :
                               includes(toLowerCase(app.shortDescription), words[k])})
        + 30 * Cardinality({k \in 1..Len(words) : InFeatures(words[k])})
        + app.rating
\* What ranks the results of a search: the relevance score when keywords are
\* supplied, the rating otherwise.
RankOf(app, params) ==
    IF params.keywords # <<>> THEN RelevanceOf(app, KeywordsOf(params.keywords))
    ELSE app.rating
Searched == request.tool = "handleSearchApps" /\ response # NoResponse
SearchResults == response.body[1].result.json.data.results
\* C21: a search returns exactly the catalog apps that satisfy every supplied
\* filter, each once, in order of non-increasing relevance score when keywords
\* are supplied and of non-increasing rating otherwise.
C21_SearchFiltersAndOrders ==
    Searched
    => /\ {SearchResults[k] : k \in 1..Len(SearchResults)}
          = {request.args.apps[k] : k \in {j \in 1..Len(request.args.apps) :
                SatisfiesFilters(request.args.apps[j], request.args.params)}}
       /\ \A j, k \in 1..Len(SearchResults) : j # k => SearchResults[j] # SearchResults[k]
       /\ \A k \in 1..(Len(SearchResults) - 1) :
              RankOf(SearchResults[k], request.args.params)
              >= RankOf(SearchResults[k + 1], request.args.params)

\* The theme of the host context a View was given last: that of the last
\* host-context-changed notification on its way to the View, or else the theme
\* the View has applied.
LastContext(inst) ==
    LET pending == SelectSeq(inst.toView, LAMBDA m : m \in ContextMessages)
    IN  IF pending # <<>> THEN ThemeOf(pending[Len(pending)]) ELSE inst.theme
\* A View of the simulator that is on screen and whose connect has resolved.
OnScreenReady(i) ==
    /\ host.kind = "simulator"
    /\ host.views[i].frame = "loaded"
    /\ host.views[i].view = "ready"
\* C22: in the simulator, whatever the theme toggles, the host context last
\* given to a View that is on screen and has completed its handshake carries the
\* host's current theme.
C22_ViewsFollowTheme ==
    \A i \in 1..Len(host.views) :
        OnScreenReady(i) => LastContext(host.views[i]) = host.currentTheme
\* The theme was toggled twice, the first time before the View was initialized
\* and the second time after: the View was offered the dark theme in the
\* handshake and has applied the light one since.
C22_Witness ==
    /\ host.toggles = MaxToggles
    /\ Len(host.views) > 0
    /\ OnScreenReady(1)
    /\ host.views[1].initialized
    /\ host.views[1].offered = "dark"
    /\ host.views[1].theme = "light"
    /\ host.views[1].toView = <<>>

\* The View as the user sees it and as its later handlers find it, the state of
\* the connection aside.
Connected(s) == [s EXCEPT !.conn = "ready"]
C24_NoBridgeOutlivesItsChat ==
    \A i \in 1..Len(host.views) :
        host.views[i].frame = "removed"
        => /\ host.views[i].bridge # "open"
           /\ \A k \in 1..Len(host.activeBridges) : host.activeBridges[k] # i
\* The app was switched with the first View connected and again while the
\* iframe of the second was loading: the first bridge is closed, the second was
\* never made, and the prompt of the second is still being processed.
C24_Witness ==
    /\ host.kind = "simulator"
    /\ Len(host.views) = 2
    /\ host.views[1].frame = "removed"
    /\ host.views[1].bridge = "closed"
    /\ host.views[2].frame = "removed"
    /\ host.views[2].bridge = "none"
    /\ host.step = "loading"
    /\ host.activeBridges = <<>>

\* C25: in the simulator a prompt is taken up only while none is being
\* processed, and whenever a prompt is being processed isProcessing becomes
\* false again, also when the user switches app in the meantime.
C25_ProcessingEnds ==
    /\ [][host'.step = "calling" /\ host.step # "calling" => ~host.isProcessing]_vars
    /\ (host.isProcessing ~> ~host.isProcessing)


\* ---- C26
\* The parameters of a loan (rate, term, down payment) two results differ in.
ChangedParameters(before, after) ==
    {p \in {"annualRate", "termYears", "downPayment"} : before[p] # after[p]}
\* A step in which the user moves one slider of the calculate mode.
SliderMoved ==
    /\ ui.app = "loan"
    /\ ui.contentEl.kind = "calculate"
    /\ ui.currentCalcData # <<>>
    /\ ui'.lastEvent.op = "edit"
\* C26: moving one slider of the loan View's calculate mode recomputes the
\* figures with a new value for at most that one parameter; the other two
\* keep the values of the result on display.
C26_SliderChangesOneParameter ==
    [][SliderMoved =>
         Cardinality(ChangedParameters(ui.currentCalcData[1], ui'.currentCalcData[1])) <= 1]_vars
\* The same for results whose rate, term and down payment lie on the sliders'
\* grids.
OnSliderGrid(data) ==
    /\ SliderValue(data.annualRate, 0, 150, 1) = data.annualRate
    /\ SliderValue(data.termYears, 50, 400, 50) = data.termYears
    /\ Dollars(data.downPayment) = DFromInt(MathRound(DDiv(DMul(Dollars(data.principal), DFromInt(SliderValue(DownPct(data), 0, 50, 1))), D100)))
C26_OnGridChangesOneParameter ==
    [][SliderMoved /\ OnSliderGrid(ui.currentCalcData[1]) =>
         Cardinality(ChangedParameters(ui.currentCalcData[1], ui'.currentCalcData[1])) <= 1]_vars


\* ---- C27
\* The test mode shows an error message: the error-msg element of
\* renderTestMode or the error text updateTestResults writes.
ShowsError(el) == el.errorMsg # NoError \/ el.highlightError # NoError
\* The test mode shows the match count and the highlighted matches of a result.
ShowsMatches(el, data) ==
    /\ el.hasHighlight
    /\ el.matchCount = data.matchCount
    /\ el.highlight = [ok |-> TRUE, str |-> data.testString, spans |-> data.matches]
\* What the fields of the test mode hold, run as a regex.
CurrentTest(el) == runRegexClientSide(el.patternInput, el.flagsInput, el.testTextarea)
AfterTestEdit == ui.app = "regex" /\ ui.contentEl.kind = "test" /\ ui.lastEvent.op = "edit"
\* C27: in the regex View's test mode, after every edit of the pattern, the
\* flags or the test string, an error message is on screen exactly when the
\* current pattern and flags do not compile, and otherwise the match count and
\* the highlighted matches of the current inputs are on screen.
C27_TestModeFollowsEdits ==
    AfterTestEdit =>
        /\ ShowsError(ui.contentEl) <=> (CurrentTest(ui.contentEl).error # NoError)
        /\ CurrentTest(ui.contentEl).error = NoError
              => ShowsMatches(ui.contentEl, CurrentTest(ui.contentEl))
\* The same when the envelope that opened the mode carried no error.
C27_OpenedWithoutError ==
    AfterTestEdit /\ ui.contentEl.errorMsg = NoError =>
        /\ ShowsError(ui.contentEl) <=> (CurrentTest(ui.contentEl).error # NoError)
        /\ CurrentTest(ui.contentEl).error = NoError
              => ShowsMatches(ui.contentEl, CurrentTest(ui.contentEl))


\* ---- C28
\* The input and the expectation of each result the generate mode lists.
CasesOf(results) ==
    [i \in 1..Len(results) |->
        [input |-> results[i].input, shouldMatch |-> results[i].shouldMatch]]
\* The generate mode displays the answer to this call, the user has edited
\* the pattern or the flags, and they compile.
EditedToValid(call) ==
    /\ ui.app = "regex"
    /\ ui.contentEl.kind = "generate"
    /\ ui.lastEvent.op = "edit"
    /\ ui.currentGenerateData = <<validateRegex(call.pattern, call.flags, call.cases)>>
    /\ NewRegExp(ui.contentEl.patternInput, ui.contentEl.flagsInput).ok
\* C28: in the regex View's generate mode, once the user has edited the
\* pattern or the flags to a regex that compiles, the list shows a pass/fail
\* result for every test case submitted with the tool call, also when the
\* server's envelope for the call reported an invalid pattern.
C28_RerunShowsEveryCase ==
    \A call \in GenerateCalls :
        EditedToValid(call) => CasesOf(ui.contentEl.results) = call.cases
\* The same for the calls whose pattern the server compiled.
C28_RerunOfValidCall ==
    \A call \in GenerateCalls :
        EditedToValid(call) /\ NewRegExp(call.pattern, call.flags).ok
            => CasesOf(ui.contentEl.results) = call.cases


\* ---- C29
\* The pattern with the flags matches this input taken on its own: test() on
\* a RegExp compiled for the occasion.
MatchesAlone(pattern, flags, input) ==
    RegExpExec(NewRegExp(pattern, flags), input, 0).found
ValidateReturned ==
    /\ request.tool = "validateRegex"
    /\ response # NoResponse
    /\ response.body[1].error = NoError
\* C29: in validateRegex, didMatch of a case says whether the pattern with
\* the given flags matches that case's input taken on its own, whatever the
\* other cases and their order, for any flags including g and y.
C29_CasesAreIndependent ==
    ValidateReturned =>
        \A k \in 1..Len(response.body[1].results) :
            response.body[1].results[k].didMatch
            = MatchesAlone(request.args.pattern, request.args.flags, request.args.cases[k].input)
\* The same for flags without g and y.
C29_IndependentWithoutGY ==
    ValidateReturned /\ ~Includes1(request.args.flags, "g") /\ ~Includes1(request.args.flags, "y") =>
        \A k \in 1..Len(response.body[1].results) :
            response.body[1].results[k].didMatch
            = MatchesAlone(request.args.pattern, request.args.flags, request.args.cases[k].input)


\* ---- C30
\* The longest term the schema of amortization_schedule accepts, in years.
MaxTermYears == 50
\* C30: for every input amortization_schedule accepts (a term of any positive
\* number of years up to 50, whole or not), the schedule has exactly
\* termMonths rows, numbered from 1 to termMonths in order, and at most 600.
C30_ScheduleHasTermMonthsRows ==
    Amortized
    => /\ DFromInt(Len(response.body[1].json.data.schedule))
          = response.body[1].json.data.termMonths
       /\ \A k \in 1..Len(response.body[1].json.data.schedule) :
             response.body[1].json.data.schedule[k].month = k
       /\ Len(response.body[1].json.data.schedule) <= MaxTermYears * 12
\* The same for terms of a whole number of months.
C30_WholeMonths ==
    Amortized /\ (request.args.term_years * 12) % 10 = 0
    => /\ DFromInt(Len(response.body[1].json.data.schedule))
          = response.body[1].json.data.termMonths
       /\ \A k \in 1..Len(response.body[1].json.data.schedule) :
             response.body[1].json.data.schedule[k].month = k
       /\ Len(response.body[1].json.data.schedule) <= MaxTermYears * 12

====
